---- MODULE Spec2Model ----
(***************************************************************************)
(* A model of DiscordReactableMenus: the menu state machine of             *)
(* src/src/ReactableMenu.py (MenuBase, InteractionMenu, ReactionMenu), its *)
(* reaction reconciler and event dispatcher, and the poll callbacks of     *)
(* src/examples/PollMenu.py.  Every coroutine is cut at its awaits: one    *)
(* action runs the code from one await to the next, as the asyncio event   *)
(* loop does.  The chat platform (message, reactions, listener registry)   *)
(* is the part of the state the coroutines reach through their awaits.     *)
(***************************************************************************)
EXTENDS Integers, Sequences, FiniteSets, TLC

\* Bounds of the exploration: how many send_menu / enable / disable calls
\* are made, and how many reactions the members add and remove.
MaxCalls == 2
MaxEvents == 1

\* For the runs of the reconciler alone: how many options the menu has, and
\* how many enable / disable calls are made one after the other.
ReconcileOptions == 2
ReconcileCalls == 3

\* For the runs of the option store alone: how many options it may hold.
MaxStore == 2

\* For the runs of the poll alone: how many reactions the members add and
\* remove.
PollEvents == 3

\* The reactions the members of the single_choice scenario add and remove.
SwitchEvents == 4

\* The reactions of the scenario of two votes: the two of u1, and those u2
\* adds and removes after them.
ScenarioEvents == 4

\* The votes an option of a poll whose results are generated has at most.
MaxVotes == 5

\* The calls of send_menu, enable and disable that do work, where every
\* call of enable and disable is recorded.
ToggleCalls == 2

\* The reactions added and removed while options are added and removed.
TallyEvents == 2

\* The reactions members add and remove while an emoji becomes an option.
FrameEvents == 2

\* The calls of send_menu, enable and disable made one after the other.
SendCalls == 3

\* The options of a stored menu that is loaded.
MaxStored == 2

\* The reaction events a role menu's callbacks are called for.
RoleEvents == 2

\* PollMenu.py: the length of the longest bar, and the text of a poll
\* without votes.
BAR_MAX_LENGTH == 10
NO_VOTES_STRING == "No votes received!"

\* The same bounds, for the runs that look at the races of three calls and
\* of two events.
RaceCalls == 3
RaceEvents == 2

None == "None"

\* The id the platform gives the message of the menu, and the id of some
\* other message of the guild.
MenuMessage == "m1"
OtherMessage == "m2"

\* PartialEmoji values: a unicode emoji has no id, a custom emoji has one.
ThumbsUp == [name |-> "thumbsup", id |-> None]
ThumbsDown == [name |-> "thumbsdown", id |-> None]
Party == [name |-> "party", id |-> "77"]
Emojis == {ThumbsUp, ThumbsDown, Party}

\* Guild members: people, and automated accounts (member.bot).
Users == {"u1", "u2"}
Bots == {"bot"}
Self == "self"

VARIABLES
    kind,                 \* "Reaction" (ReactionMenu) or "Interaction" (InteractionMenu)
    enabled,              \* MenuBase.enabled
    message,              \* MenuBase.message: None or the id of the bound message
    message_id,           \* MenuBase.message_id
    auto_enable,          \* MenuBase.auto_enable
    options,              \* MenuBase.options: the options in insertion order
    react_add_handler,    \* ReactionMenu.react_add_handler: None or "add_vote_event"
    react_remove_handler, \* ReactionMenu.react_remove_handler: None or "remove_vote_event"
    total_votes,          \* PollMenu.total_votes
    members_voted,        \* PollMenu.members_voted, a list
    single_choice,        \* PollMenu.single_choice
    listeners,            \* the bot's registry: how often each handler is registered
    rendered,             \* the enabled state the message shows: None before the first edit
    deleted,              \* the message was deleted on the platform
    live,                 \* the reactions on the message: <<emoji, member>> pairs
    calls,                \* send_menu / enable / disable coroutines suspended at an await
    pending,              \* event-handler coroutines the bot has scheduled, first first
    handlers,             \* event-handler coroutines suspended at an await
    nCalls,               \* send_menu / enable / disable calls so far that went to work
    nEvents,              \* reactions the members have added and removed so far
    delivered,            \* events so far that the bot had a listener for
    lastCallback,         \* the handler the per-menu callback was last called in: <<ev, copy>>
    default_options,      \* the dict that is the default of MenuBase.__init__'s options
    shares_default,       \* the menu was constructed without options: its dict is the default
    lastCall,             \* the last add_option / remove_option call: what it was given,
                          \* the options before it, and what it returned or raised
    rejected,             \* the last vote add_vote_event turned down: the tally before it,
                          \* carried along the callbacks run since for other members
    results,              \* what generate_results last returned or raised
    role_events,          \* the role menu's callbacks so far, each with the calls it made
    corrective            \* the add-events add_vote_event found no option for, and the
                          \* remove-events the removal of their reactions brought about

menuVars == <<enabled, message, message_id, auto_enable, options, react_add_handler,
              react_remove_handler, total_votes, members_voted, single_choice>>
platformVars == <<listeners, rendered, deleted, live>>
storeVars == <<default_options, shares_default, lastCall>>
pollVars == <<rejected, results, role_events, corrective>>
vars == <<kind, menuVars, platformVars, calls, pending, handlers, nCalls, nEvents,
          delivered, lastCallback, storeVars, pollVars>>

\* No add_option / remove_option call was made yet.
NoCall == [op |-> None, given |-> None, description |-> None, before |-> <<>>,
           returned |-> None]

\* add_vote_event turned no vote down yet.
NoRejected == [ev |-> 0, member |-> None, keys |-> <<>>, counts |-> <<>>,
               total_votes |-> 0, entries |-> 0, followup |-> 0, own |-> FALSE,
               done |-> TRUE]

\* add_vote_event found an option for every add-event so far.
NoCorrective == [adds |-> {}, removes |-> {}]

\* generate_results was not called yet.
NoResults == [raised |-> None, string |-> None, bars |-> <<>>]

----------------------------------------------------------------------------
(* EmojiHandler.py and MenuOption *)

\* ReactionEmoji.emoji_id: the id of a custom emoji, the name of a unicode one.
emoji_id(partial) == IF partial.id # None THEN partial.id ELSE partial.name

\* MenuOption.__init__: a new option has reaction_count 0.
MenuOption(emoji, description) ==
    [emoji |-> emoji, description |-> description, reaction_count |-> 0]

\* MenuOption.id
OptionId(option) == emoji_id(option.emoji)

\* The keys of the options dict, in insertion order.
OptionKeys(opts) == [i \in 1..Len(opts) |-> OptionId(opts[i])]

Range(seq) == {seq[i] : i \in 1..Len(seq)}

\* `key in self.options`
HasOption(opts, key) == key \in Range(OptionKeys(opts))

RECURSIVE Without(_, _)
\* list.remove(x): the list without the first occurrence of x.
Without(seq, x) ==
    IF seq = <<>> THEN <<>>
    ELSE IF Head(seq) = x THEN Tail(seq)
    ELSE <<Head(seq)>> \o Without(Tail(seq), x)

\* Python's None where a PartialEmoji is expected.
NoPartial == [name |-> None, id |-> None]

\* Texts, as lists of characters.  "U" stands for a unicode emoji, "p" for
\* a letter, "7" for a digit.
CustomText == <<"<", ":", "p", ":", "7", ">">>
UnicodeText == <<"U">>
SpacedText == <<" ", "U">>
PlainText == <<"p">>
OneColonText == <<"<", "p", ":", "7", ">">>
LetterIdText == <<"<", ":", "p", ":", "x", ">">>

\* What add_option and remove_option are given: a PartialEmoji, a str, or
\* a value of a type ReactionEmoji does not know.
GivenEmojis ==
    {[partial |-> ThumbsUp], [partial |-> Party],
     [str |-> CustomText], [str |-> UnicodeText], [str |-> SpacedText],
     [str |-> PlainText], [str |-> OneColonText], [str |-> LetterIdText],
     [int |-> 5]}

RECURSIVE Strip(_)
\* str.strip, for the blank.
Strip(text) ==
    IF text = <<>> THEN <<>>
    ELSE IF Head(text) = " " THEN Strip(Tail(text))
    ELSE IF text[Len(text)] = " " THEN Strip(SubSeq(text, 1, Len(text) - 1))
    ELSE text

RECURSIVE Demojize(_)
\* emoji.demojize: a unicode emoji becomes its shortcode, the rest stays.
Demojize(text) ==
    IF text = <<>> THEN <<>>
    ELSE (IF Head(text) = "U" THEN <<":", "u", ":">> ELSE <<Head(text)>>)
         \o Demojize(Tail(text))

\* str.count(":")
Colons(text) == Cardinality({i \in 1..Len(text) : text[i] = ":"})

\* str.index(":", from), for a text that has a colon there.
ColonFrom(text, from) == CHOOSE i \in from..Len(text) :
    text[i] = ":" /\ \A j \in from..(i - 1) : text[j] # ":"

RECURSIVE Join(_)
\* The str of a list of characters.
Join(text) == IF text = <<>> THEN "" ELSE Head(text) \o Join(Tail(text))

\* PartialEmoji.from_dict: the id is made an int, which raises ValueError on
\* a text that is no number; an empty id is as good as None.  The result is
\* what was raised, and the PartialEmoji.
FromDict(name, id) ==
    IF id = <<>> THEN [raised |-> None, partial |-> [name |-> Join(name), id |-> None]]
    ELSE IF \A i \in 1..Len(id) : id[i] = "7"
    THEN [raised |-> None, partial |-> [name |-> Join(name), id |-> Join(id)]]
    ELSE [raised |-> "ValueError", partial |-> NoPartial]

\* string_to_partial_emoji: a unicode emoji is its own name; any other text
\* is cut at its first two colons into name and id (up to its last
\* character), and is None when it has fewer than two colons.
string_to_partial_emoji(string_emoji) ==
    LET text == Strip(string_emoji) IN
    IF Demojize(text) = text
    THEN IF Colons(text) < 2 THEN [raised |-> None, partial |-> NoPartial]
         ELSE LET first == ColonFrom(text, 1)
                  last == ColonFrom(text, first + 1)
              IN FromDict(SubSeq(text, first + 1, last - 1),
                          SubSeq(text, last + 1, Len(text) - 1))
    ELSE FromDict(text, <<>>)

\* ReactionEmoji.__init__: what it raised, and self.partial.
ReactionEmoji(emoji_input) ==
    IF "str" \in DOMAIN emoji_input THEN string_to_partial_emoji(emoji_input.str)
    ELSE IF "partial" \in DOMAIN emoji_input
    THEN [raised |-> None, partial |-> emoji_input.partial]
    ELSE IF "dict" \in DOMAIN emoji_input
    THEN FromDict(emoji_input.dict.name, emoji_input.dict.id)
    ELSE [raised |-> "ValueError", partial |-> NoPartial]

\* add_option as it would be without its `in self.options` test.
add_option_again(opts, given_emoji, description) ==
    LET emoji == ReactionEmoji(given_emoji) IN
    IF emoji.raised = "ValueError" THEN [options |-> opts, returned |-> "False"]
    ELSE IF emoji.partial = NoPartial THEN [options |-> opts, returned |-> "AttributeError"]
    ELSE [options |-> Append(opts, MenuOption(emoji.partial, description)),
          returned |-> "True"]

\* MenuBase.add_option: the options after it, and what it returned or, when
\* it raised, what it raised.  emoji_id of a ReactionEmoji whose partial is
\* None raises AttributeError, which add_option does not catch.
add_option(opts, given_emoji, description) ==
    LET emoji == ReactionEmoji(given_emoji) IN
    IF emoji.raised = "ValueError" THEN [options |-> opts, returned |-> "False"]
    ELSE IF emoji.partial = NoPartial THEN [options |-> opts, returned |-> "AttributeError"]
    ELSE IF HasOption(opts, emoji_id(emoji.partial))
    THEN [options |-> opts, returned |-> "False"]
    ELSE [options |-> Append(opts, MenuOption(emoji.partial, description)),
          returned |-> "True"]

\* remove_option as it would be if it popped the first option there is.
remove_option_first(opts, given_emoji) ==
    LET emoji == ReactionEmoji(given_emoji) IN
    IF emoji.raised = "ValueError" THEN [options |-> opts, returned |-> "False"]
    ELSE IF emoji.partial = NoPartial THEN [options |-> opts, returned |-> "AttributeError"]
    ELSE [options |-> IF opts = <<>> THEN <<>> ELSE Tail(opts),
          returned |-> IF opts # <<>> THEN "True" ELSE "False"]

\* remove_option as it would be if it looked the option up without popping it.
remove_option_keeps(opts, given_emoji) ==
    LET emoji == ReactionEmoji(given_emoji) IN
    IF emoji.raised = "ValueError" THEN [options |-> opts, returned |-> "False"]
    ELSE IF emoji.partial = NoPartial THEN [options |-> opts, returned |-> "AttributeError"]
    ELSE [options |-> opts,
          returned |-> IF HasOption(opts, emoji_id(emoji.partial)) THEN "True" ELSE "False"]

\* MenuBase.remove_option: options.pop(emoji_id, None) is not None.
remove_option(opts, given_emoji) ==
    LET emoji == ReactionEmoji(given_emoji) IN
    IF emoji.raised = "ValueError" THEN [options |-> opts, returned |-> "False"]
    ELSE IF emoji.partial = NoPartial THEN [options |-> opts, returned |-> "AttributeError"]
    ELSE [options |-> SelectSeq(opts, LAMBDA o : OptionId(o) # emoji_id(emoji.partial)),
          returned |-> IF HasOption(opts, emoji_id(emoji.partial)) THEN "True" ELSE "False"]

----------------------------------------------------------------------------
(* The platform *)

\* The order in which the message lists its reactions.
EmojiOrder == <<ThumbsUp, ThumbsDown, Party>>

\* Message.reactions of a freshly fetched message: the emojis with at least
\* one reaction.
Reactions(lv) ==
    SelectSeq(EmojiOrder, LAMBDA e : \E m \in Users \cup Bots \cup {Self} : <<e, m>> \in lv)

\* Bot.add_listener, for both handlers: the registry is a list per event
\* name, and each call appends to it.
AddListeners(reg) == [add |-> reg.add + 1, remove |-> reg.remove + 1]

\* Bot.remove_listener, for both handlers: drops one registration of the
\* handler, if there is one.
RemoveListeners(reg) ==
    [add |-> IF reg.add > 0 THEN reg.add - 1 ELSE 0,
     remove |-> IF reg.remove > 0 THEN reg.remove - 1 ELSE 0]

\* The raw reaction event: ev is its place in the order of delivery.
Payload(ev, type, emoji, member, mid) ==
    [ev |-> ev, type |-> type, emoji |-> emoji, member |-> member, message_id |-> mid]

\* Bot.dispatch: the event schedules one coroutine per registration of the
\* handler, and the event loop will start them in this order.
Dispatch(n, payload) ==
    [i \in 1..n |-> [payload |-> payload, copy |-> i]]

\* The registrations an event of this type is dispatched to.
Registered(type) == IF type = "add" THEN listeners.add ELSE listeners.remove

\* The coroutines the bot schedules for a new event, and the count of
\* delivered events after it.
Scheduled(type, emoji, member, mid) ==
    Dispatch(Registered(type), Payload(delivered + 1, type, emoji, member, mid))

Delivered(type) == IF Registered(type) > 0 THEN delivered + 1 ELSE delivered

----------------------------------------------------------------------------
(* send_menu, enable, disable, update_menu, add_reactions *)

Call(id, op, inner, pc, payload, reacts, missing) ==
    [id |-> id, op |-> op, inner |-> inner, pc |-> pc, payload |-> payload,
     reacts |-> reacts, missing |-> missing]

\* update_menu up to its first await: it raises on an unbound menu, and
\* otherwise builds the embed from the enabled flag and awaits the edit.
\* The result is the set of coroutines left suspended (none after a raise).
UpdateMenu(id, op, inner, msg, en) ==
    IF msg = None THEN {}
    ELSE {Call(id, op, inner, "edit", en, <<>>, <<>>)}

RECURSIVE ScanSkipsForeign(_, _)
\* The loop as it would be if it passed over a foreign reaction.
ScanSkipsForeign(reacts, missing) ==
    IF reacts = <<>> THEN [reacts |-> <<>>, missing |-> missing]
    ELSE IF emoji_id(Head(reacts)) \in Range(missing)
         THEN ScanSkipsForeign(Tail(reacts), Without(missing, emoji_id(Head(reacts))))
         ELSE ScanSkipsForeign(Tail(reacts), missing)

RECURSIVE ScanKeepsMissing(_, _)
\* The loop as it would be if it did not strike the reaction of an option
\* from missing_emojis.
ScanKeepsMissing(reacts, missing) ==
    IF reacts = <<>> THEN [reacts |-> <<>>, missing |-> missing]
    ELSE IF emoji_id(Head(reacts)) \in Range(missing)
         THEN ScanKeepsMissing(Tail(reacts), missing)
         ELSE [reacts |-> reacts, missing |-> missing]

RECURSIVE Scan(_, _)
\* The loop over message.reactions in add_reactions, up to its next await: a
\* reaction of an option is struck from missing_emojis, any other is cleared.
Scan(reacts, missing) ==
    IF reacts = <<>> THEN [reacts |-> <<>>, missing |-> missing]
    ELSE IF emoji_id(Head(reacts)) \in Range(missing)
         THEN Scan(Tail(reacts), Without(missing, emoji_id(Head(reacts))))
         ELSE [reacts |-> reacts, missing |-> missing]

\* The option an id names in `self.options.get(emoji_id)`.
OptionOf(opts, key) == CHOOSE o \in Range(opts) : OptionId(o) = key

\* Where add_reactions suspends next, given what is left of its two loops:
\* "clear" on a foreign reaction, "add_reaction" on a missing option,
\* "return" when both loops are over, "raise" when a missing id no longer
\* names an option (None has no attribute emoji).
ReactionsPc(s, opts) ==
    IF s.reacts # <<>> THEN "clear"
    ELSE IF s.missing = <<>> THEN "return"
    ELSE IF HasOption(opts, Head(s.missing)) THEN "add_reaction"
    ELSE "raise"

\* The coroutine c after its add_reactions ran on to pc with s left; the
\* empty set when it is over.
Suspended(c, s, pc) ==
    IF pc \in {"clear", "add_reaction"}
    THEN {[c EXCEPT !.pc = pc, !.reacts = s.reacts, !.missing = s.missing]}
    ELSE {}

\* enable, after its update_menu returned, registers the two handlers;
\* disable and an update_menu that raised register nothing.
AfterUpdate(c, pc, reg) ==
    IF pc = "return" /\ c.inner = "enable" THEN AddListeners(reg) ELSE reg

\* A name for a new coroutine: the first that no suspended one bears.
FreeId == CHOOSE i \in 1..(Cardinality(calls) + 1) : \A c \in calls : c.id # i

\* enable as it would be without its `if not self.enabled` test.
EnableCalledUntested(maxCalls) ==
    /\ nCalls < maxCalls
    /\ enabled' = TRUE
    /\ nCalls' = nCalls + 1
    /\ calls' = calls \cup UpdateMenu(FreeId, "enable", "enable", message, TRUE)
    /\ UNCHANGED <<kind, message, message_id, auto_enable, options, react_add_handler,
                   react_remove_handler, total_votes, members_voted, single_choice,
                   platformVars, handlers, nEvents, delivered, pending, lastCallback,
                   default_options, shares_default, pollVars>>

\* ReactionMenu.enable / InteractionMenu.enable, called: the steps up to
\* its first await, or all of it where it finds the menu enabled.
EnableCalled(maxCalls) ==
    /\ nCalls < maxCalls
    /\ IF enabled
       THEN UNCHANGED <<enabled, calls, nCalls>>
       ELSE /\ enabled' = TRUE
            /\ nCalls' = nCalls + 1
            /\ calls' = calls \cup UpdateMenu(FreeId, "enable", "enable", message, TRUE)
    /\ UNCHANGED <<kind, message, message_id, auto_enable, options, react_add_handler,
                   react_remove_handler, total_votes, members_voted, single_choice,
                   platformVars, handlers, nEvents, delivered, pending, lastCallback,
                   default_options, shares_default, pollVars>>

\* ReactionMenu.disable / InteractionMenu.disable, called.
DisableCalled(maxCalls) ==
    /\ nCalls < maxCalls
    /\ IF ~enabled
       THEN UNCHANGED <<enabled, calls, listeners, nCalls>>
       ELSE /\ enabled' = FALSE
            /\ nCalls' = nCalls + 1
            /\ listeners' = IF kind = "Reaction" THEN RemoveListeners(listeners) ELSE listeners
            /\ calls' = calls \cup UpdateMenu(FreeId, "disable", "disable", message, FALSE)
    /\ UNCHANGED <<kind, message, message_id, auto_enable, options, react_add_handler,
                   react_remove_handler, total_votes, members_voted, single_choice,
                   rendered, deleted, live, handlers, nEvents, delivered, pending,
                   lastCallback, default_options, shares_default, pollVars>>

\* What enable and disable return where they find the menu in the state
\* asked for: False (ReactionMenu) or None (InteractionMenu); elsewhere
\* they await.
ReturnedAtOnce(found) ==
    IF ~found THEN "awaiting" ELSE IF kind = "Reaction" THEN "False" ELSE None

\* enable, called, with the call on record.
EnableRecorded(maxCalls) ==
    /\ EnableCalled(maxCalls)
    /\ lastCall' = [op |-> "enable", given |-> None, description |-> None,
                    before |-> options, returned |-> ReturnedAtOnce(enabled)]

\* disable, called, with the call on record.
DisableRecorded(maxCalls) ==
    /\ DisableCalled(maxCalls)
    /\ lastCall' = [op |-> "disable", given |-> None, description |-> None,
                    before |-> options, returned |-> ReturnedAtOnce(~enabled)]

\* enable, called.
Enable(maxCalls) == EnableCalled(maxCalls) /\ UNCHANGED lastCall

\* disable, called.
Disable(maxCalls) == DisableCalled(maxCalls) /\ UNCHANGED lastCall

\* send_menu, called on a menu that was not sent yet: it awaits channel.send.
SendMenu(maxCalls) ==
    /\ nCalls < maxCalls
    /\ message = None
    /\ \A c \in calls : c.op # "send_menu"
    /\ nCalls' = nCalls + 1
    /\ calls' = calls \cup {Call(FreeId, "send_menu", "send_menu", "send", FALSE, <<>>, <<>>)}
    /\ UNCHANGED <<kind, menuVars, platformVars, handlers, nEvents, delivered, pending,
                   lastCallback, storeVars, pollVars>>

\* channel.send returned the new message: send_menu binds it and goes on
\* into enable (auto_enable) or into disable, with enabled set for it.
\* InteractionMenu.send_menu sets enabled and awaits the edit itself.
SendMenuSent(c) ==
    /\ c \in calls /\ c.pc = "send"
    /\ message' = MenuMessage
    /\ message_id' = MenuMessage
    /\ IF kind = "Interaction"
       THEN /\ enabled' = auto_enable
            /\ calls' = (calls \ {c})
                   \cup {Call(c.id, "send_menu", "send_menu", "edit", auto_enable, <<>>, <<>>)}
            /\ UNCHANGED listeners
       ELSE IF auto_enable
       THEN IF enabled
            THEN /\ calls' = calls \ {c}
                 /\ UNCHANGED <<enabled, listeners>>
            ELSE /\ enabled' = TRUE
                 /\ calls' = (calls \ {c})
                        \cup UpdateMenu(c.id, "send_menu", "enable", MenuMessage, TRUE)
                 /\ UNCHANGED listeners
       ELSE /\ enabled' = FALSE
            /\ listeners' = RemoveListeners(listeners)
            /\ calls' = (calls \ {c})
                   \cup UpdateMenu(c.id, "send_menu", "disable", MenuMessage, FALSE)
    /\ UNCHANGED <<kind, auto_enable, options, react_add_handler, react_remove_handler,
                   total_votes, members_voted, single_choice, rendered, deleted, live,
                   handlers, nCalls, nEvents, delivered, pending, lastCallback,
                   storeVars, pollVars>>

\* message.edit returned: the message shows the embed that was built.  The
\* reaction menu goes on to fetch the message; the interaction menu is done.
MessageEdited(c) ==
    /\ c \in calls /\ c.pc = "edit"
    /\ ~deleted
    /\ rendered' = c.payload
    /\ calls' = (calls \ {c})
           \cup (IF kind = "Reaction" THEN {[c EXCEPT !.pc = "fetch"]} ELSE {})
    /\ UNCHANGED <<kind, menuVars, listeners, deleted, live, handlers, nCalls, nEvents,
                   delivered, pending, lastCallback, storeVars, pollVars>>

\* fetch_message returned: update_menu rebinds the message and, when the
\* menu is enabled now, runs add_reactions to its first await.
MessageFetched(c) ==
    /\ c \in calls /\ c.pc = "fetch"
    /\ ~deleted
    /\ message' = message_id
    /\ LET s == IF enabled THEN Scan(Reactions(live), OptionKeys(options))
                ELSE [reacts |-> <<>>, missing |-> <<>>]
           pc == ReactionsPc(s, options)
       IN /\ calls' = (calls \ {c}) \cup Suspended(c, s, pc)
          /\ listeners' = AfterUpdate(c, pc, listeners)
    /\ UNCHANGED <<kind, enabled, message_id, auto_enable, options, react_add_handler,
                   react_remove_handler, total_votes, members_voted, single_choice,
                   rendered, deleted, live, handlers, nCalls, nEvents, delivered,
                   pending, lastCallback, storeVars, pollVars>>

\* react.clear() returned: the foreign emoji is gone from the message, and
\* the loop goes on.
ClearDone(c) ==
    /\ c \in calls /\ c.pc = "clear"
    /\ ~deleted
    /\ live' = {r \in live : r[1] # Head(c.reacts)}
    /\ LET s == Scan(Tail(c.reacts), c.missing)
           pc == ReactionsPc(s, options)
       IN /\ calls' = (calls \ {c}) \cup Suspended(c, s, pc)
          /\ listeners' = AfterUpdate(c, pc, listeners)
    /\ UNCHANGED <<kind, menuVars, rendered, deleted, handlers, nCalls, nEvents,
                   delivered, pending, lastCallback, storeVars, pollVars>>

\* message.add_reaction returned, or raised the HTTPException that
\* add_reactions catches: the loop goes on either way.  The bot's own new
\* reaction is an on_raw_reaction_add event like any other.
AddReactionDone(c, ok) ==
    /\ c \in calls /\ c.pc = "add_reaction"
    /\ ok => ~deleted
    /\ LET emoji == OptionOf(options, Head(c.missing)).emoji
           new == ok /\ <<emoji, Self>> \notin live
       IN /\ live' = IF ok THEN live \cup {<<emoji, Self>>} ELSE live
          /\ pending' = IF new THEN pending \o Scheduled("add", emoji, Self, message_id)
                        ELSE pending
          /\ delivered' = IF new THEN Delivered("add") ELSE delivered
    /\ LET s == [reacts |-> <<>>, missing |-> Tail(c.missing)]
           pc == ReactionsPc(s, options)
       IN /\ calls' = (calls \ {c}) \cup Suspended(c, s, pc)
          /\ listeners' = AfterUpdate(c, pc, listeners)
    /\ UNCHANGED <<kind, menuVars, rendered, deleted, handlers, nCalls, nEvents,
                   lastCallback, storeVars, pollVars>>

\* An awaited platform call of send_menu / enable / disable raised
\* (HTTPException, or NotFound once the message is deleted): nothing catches
\* it, and the coroutine ends where it is.
CallRaised(c) ==
    /\ c \in calls /\ c.pc \in {"send", "edit", "fetch", "clear"}
    /\ calls' = calls \ {c}
    /\ UNCHANGED <<kind, menuVars, platformVars, handlers, nCalls, nEvents, delivered,
                   pending, lastCallback, storeVars, pollVars>>

----------------------------------------------------------------------------
(* The event dispatcher and the poll callbacks *)

\* The handler of a scheduled coroutine, suspended at pc.
Handler(task, pc) ==
    [ev |-> task.payload.ev, type |-> task.payload.type, emoji |-> task.payload.emoji,
     member |-> task.payload.member, message_id |-> task.payload.message_id,
     copy |-> task.copy, pc |-> pc]

\* on_react_add_event as it would be without its `payload.member.bot` test.
OnReactAddEventAnyMember(task) ==
    IF task.payload.message_id # message_id THEN {}
    ELSE IF react_add_handler = None THEN {}
    ELSE IF enabled THEN {Handler(task, "fetch")}
    ELSE {}

\* on_react_add_event up to its await: the events of bots, of other
\* messages, of a menu without add handler and of a disabled menu are
\* dropped; for any other the handler goes to fetch the message.  The
\* result is the set of coroutines left suspended.
OnReactAddEvent(task) ==
    IF task.payload.member \in Bots \cup {Self} THEN {}
    ELSE IF task.payload.message_id # message_id THEN {}
    ELSE IF react_add_handler = None THEN {}
    ELSE IF enabled THEN {Handler(task, "fetch")}
    ELSE {}

\* on_react_remove_event up to its await.
OnReactRemoveEvent(task) ==
    IF task.payload.message_id # message_id THEN {}
    ELSE IF react_remove_handler = None THEN {}
    ELSE IF enabled THEN {Handler(task, "fetch")}
    ELSE {}

\* A member adds a reaction to a message; the platform delivers
\* on_raw_reaction_add.
ReactionAdd(maxEvents, member, emoji, mid) ==
    /\ nEvents < maxEvents
    /\ mid = MenuMessage => message # None /\ ~deleted /\ <<emoji, member>> \notin live
    /\ live' = IF mid = MenuMessage THEN live \cup {<<emoji, member>>} ELSE live
    /\ nEvents' = nEvents + 1
    /\ pending' = pending \o Scheduled("add", emoji, member, mid)
    /\ delivered' = Delivered("add")
    /\ UNCHANGED <<kind, menuVars, listeners, rendered, deleted, calls, handlers, nCalls,
                   lastCallback, storeVars, pollVars>>

\* A member removes a reaction of theirs; the platform delivers
\* on_raw_reaction_remove.
ReactionRemove(maxEvents, member, emoji, mid) ==
    /\ nEvents < maxEvents
    /\ mid = MenuMessage => message # None /\ ~deleted /\ <<emoji, member>> \in live
    /\ live' = IF mid = MenuMessage THEN live \ {<<emoji, member>>} ELSE live
    /\ nEvents' = nEvents + 1
    /\ pending' = pending \o Scheduled("remove", emoji, member, mid)
    /\ delivered' = Delivered("remove")
    /\ UNCHANGED <<kind, menuVars, listeners, rendered, deleted, calls, handlers, nCalls,
                   lastCallback, storeVars, pollVars>>

\* The event loop starts the first scheduled coroutine: on_react_add_event
\* or on_react_remove_event runs to its return or to its await.
HandlerStart ==
    /\ pending # <<>>
    /\ pending' = Tail(pending)
    /\ handlers' = handlers \cup
           (IF Head(pending).payload.type = "add" THEN OnReactAddEvent(Head(pending))
            ELSE OnReactRemoveEvent(Head(pending)))
    /\ UNCHANGED <<kind, menuVars, platformVars, calls, nCalls, nEvents, delivered,
                   lastCallback, storeVars, pollVars>>

\* ReactableOption.add_reaction / remove_reaction on the option of a key.
CountReaction(opts, key, by) ==
    [i \in 1..Len(opts) |->
        IF OptionId(opts[i]) = key
        THEN [opts[i] EXCEPT !.reaction_count = opts[i].reaction_count + by]
        ELSE opts[i]]

\* add_vote_event as it would be if it returned on a foreign emoji without
\* removing the reaction.
AddVoteEventKeepsForeign(h) ==
    LET key == emoji_id(h.emoji) IN
    IF ~HasOption(options, key)
    THEN [options |-> options, total_votes |-> total_votes,
          members_voted |-> members_voted, remove |-> FALSE, returned |-> FALSE]
    ELSE [options |-> CountReaction(options, key, 1),
          total_votes |-> total_votes + 1,
          members_voted |-> Append(members_voted, h.member),
          remove |-> single_choice /\ h.member \in Range(members_voted),
          returned |-> ~(single_choice /\ h.member \in Range(members_voted))]

\* add_vote_event as it would be if it turned the second vote of a member
\* down before it tallied it.
AddVoteEventRejectsFirst(h) ==
    LET key == emoji_id(h.emoji) IN
    IF ~HasOption(options, key) \/ (single_choice /\ h.member \in Range(members_voted))
    THEN [options |-> options, total_votes |-> total_votes,
          members_voted |-> members_voted, remove |-> TRUE, returned |-> FALSE]
    ELSE [options |-> CountReaction(options, key, 1),
          total_votes |-> total_votes + 1,
          members_voted |-> Append(members_voted, h.member),
          remove |-> FALSE, returned |-> TRUE]

\* add_vote_event as it would be if it noted the member whose vote it turns
\* down only after the removal of the reaction.
AddVoteEventRecordsLate(h) ==
    LET key == emoji_id(h.emoji) IN
    IF ~HasOption(options, key)
    THEN [options |-> options, total_votes |-> total_votes,
          members_voted |-> members_voted, remove |-> TRUE, returned |-> FALSE]
    ELSE IF single_choice /\ h.member \in Range(members_voted)
    THEN [options |-> CountReaction(options, key, 1),
          total_votes |-> total_votes + 1,
          members_voted |-> members_voted, remove |-> TRUE, returned |-> FALSE]
    ELSE [options |-> CountReaction(options, key, 1),
          total_votes |-> total_votes + 1,
          members_voted |-> Append(members_voted, h.member),
          remove |-> FALSE, returned |-> TRUE]

\* add_vote_event up to its await or its return: what it leaves of options,
\* total_votes and members_voted, whether it goes on to remove the
\* reaction, and the value it returns in the end.
AddVoteEvent(h) ==
    LET key == emoji_id(h.emoji) IN
    IF ~HasOption(options, key)
    THEN [options |-> options, total_votes |-> total_votes,
          members_voted |-> members_voted, remove |-> TRUE, returned |-> FALSE]
    ELSE [options |-> CountReaction(options, key, 1),
          total_votes |-> total_votes + 1,
          members_voted |-> Append(members_voted, h.member),
          remove |-> single_choice /\ h.member \in Range(members_voted),
          returned |-> ~(single_choice /\ h.member \in Range(members_voted))]

\* remove_vote_event as it would be if it took the member's entry and a
\* vote before it looked for the option.
RemoveVoteEventForgetsFirst(h) ==
    LET key == emoji_id(h.emoji) IN
    IF h.member \notin Range(members_voted)
    THEN [options |-> options, total_votes |-> total_votes,
          members_voted |-> members_voted, remove |-> FALSE, returned |-> FALSE]
    ELSE [options |-> IF HasOption(options, key) THEN CountReaction(options, key, -1)
                      ELSE options,
          total_votes |-> total_votes - 1,
          members_voted |-> Without(members_voted, h.member),
          remove |-> FALSE, returned |-> FALSE]

\* remove_vote_event: it never awaits, and each of its three returns is
\* `return False`.
RemoveVoteEvent(h) ==
    LET key == emoji_id(h.emoji) IN
    IF ~HasOption(options, key) \/ h.member \notin Range(members_voted)
    THEN [options |-> options, total_votes |-> total_votes,
          members_voted |-> members_voted, remove |-> FALSE, returned |-> FALSE]
    ELSE [options |-> CountReaction(options, key, -1),
          total_votes |-> total_votes - 1,
          members_voted |-> Without(members_voted, h.member),
          remove |-> FALSE, returned |-> FALSE]

\* The reaction counts of the options, in their order.
Counts(opts) == [i \in 1..Len(opts) |-> opts[i].reaction_count]

\* How often a member is in the list members_voted.
Entries(voted, member) == Len(SelectSeq(voted, LAMBDA m : m = member))

\* The vote turned down that is followed, after the callback of the
\* handler h did r.  The branch of add_vote_event that tallies the vote of a
\* member who is in members_voted and goes to remove the reaction notes the
\* tally it found.  Until the callback has run for the remove-event that
\* removal brings about (followup), what a callback for another member does
\* to the counts and to total_votes is done to the noted tally too, and a
\* callback for another event of the same member is noted (own).  A tally
\* noted for other options than the menu has now is dropped.
RejectedVote(h, r) ==
    IF ~rejected.done /\ rejected.keys # OptionKeys(options)
    THEN NoRejected
    ELSE IF ~rejected.done
    THEN IF h.member # rejected.member
         THEN [rejected EXCEPT
                  !.counts = [i \in DOMAIN @ |->
                                 @[i] + r.options[i].reaction_count
                                      - options[i].reaction_count],
                  !.total_votes = @ + r.total_votes - total_votes]
         ELSE IF h.type = "remove" /\ h.ev = rejected.followup
         THEN [rejected EXCEPT !.done = TRUE]
         ELSE [rejected EXCEPT !.own = TRUE]
    ELSE IF h.type = "add" /\ HasOption(options, emoji_id(h.emoji)) /\ r.remove
    THEN [ev |-> h.ev, member |-> h.member, keys |-> OptionKeys(options),
          counts |-> Counts(options), total_votes |-> total_votes,
          entries |-> Entries(members_voted, h.member),
          followup |-> 0, own |-> FALSE, done |-> FALSE]
    ELSE rejected

\* fetch_message returned in an event handler: the handler rebinds the
\* message and calls the per-menu callback, which runs to its await or end.
EventFetched(h) ==
    /\ h \in handlers /\ h.pc = "fetch"
    /\ ~deleted
    /\ message' = h.message_id
    /\ lastCallback' = <<h.ev, h.copy>>
    /\ LET r == IF h.type = "add" THEN AddVoteEvent(h) ELSE RemoveVoteEvent(h)
       IN /\ options' = r.options
          /\ rejected' = RejectedVote(h, r)
          /\ corrective' = IF h.type = "add" /\ ~HasOption(options, emoji_id(h.emoji))
                           THEN [corrective EXCEPT !.adds = @ \cup {h.ev}]
                           ELSE corrective
          /\ total_votes' = r.total_votes
          /\ members_voted' = r.members_voted
          /\ handlers' = (handlers \ {h})
                 \cup (IF r.remove THEN {[h EXCEPT !.pc = "remove_reaction"]} ELSE {})
    /\ UNCHANGED <<kind, enabled, message_id, auto_enable, react_add_handler,
                   react_remove_handler, single_choice, platformVars, calls, pending,
                   nCalls, nEvents, delivered, storeVars, results, role_events>>

\* message.remove_reaction returned: the reaction, if it is still there, is
\* gone, and the platform delivers on_raw_reaction_remove for it.  The
\* callback returns False.
ReactionRemoved(h) ==
    /\ h \in handlers /\ h.pc = "remove_reaction"
    /\ ~deleted
    /\ handlers' = handlers \ {h}
    /\ IF <<h.emoji, h.member>> \in live
       THEN /\ live' = live \ {<<h.emoji, h.member>>}
            /\ pending' = pending \o Scheduled("remove", h.emoji, h.member, h.message_id)
            /\ delivered' = Delivered("remove")
            /\ rejected' = IF h.ev = rejected.ev /\ Registered("remove") > 0
                           THEN [rejected EXCEPT !.followup = delivered + 1]
                           ELSE rejected
            /\ corrective' = IF h.ev \in corrective.adds /\ Registered("remove") > 0
                             THEN [corrective EXCEPT !.removes = @ \cup {delivered + 1}]
                             ELSE corrective
       ELSE UNCHANGED <<live, pending, delivered, rejected, corrective>>
    /\ UNCHANGED <<kind, menuVars, listeners, rendered, deleted, calls, nCalls, nEvents,
                   lastCallback, storeVars, results, role_events>>

\* An awaited platform call of an event handler raised: nothing catches it.
EventRaised(h) ==
    /\ h \in handlers
    /\ handlers' = handlers \ {h}
    /\ UNCHANGED <<kind, menuVars, platformVars, calls, pending, nCalls, nEvents, delivered,
                   lastCallback, storeVars, pollVars>>

\* delete_menu of the cog: the message is deleted, and the cog forgets the
\* menu.  Nothing of the menu is called.
DeleteMenu ==
    /\ message # None /\ ~deleted
    /\ deleted' = TRUE
    /\ live' = {}
    /\ UNCHANGED <<kind, menuVars, listeners, rendered, calls, handlers, nCalls, nEvents,
                   delivered, pending, lastCallback, storeVars, pollVars>>

----------------------------------------------------------------------------
(* The specification *)

\* A menu as its constructor leaves it, with the options its maker added
\* before sending it, and a platform on which it has no message yet.
InitWith(opts, choices) ==
    /\ kind \in {"Reaction", "Interaction"}
    /\ enabled = FALSE
    /\ message = None
    /\ message_id = None
    /\ auto_enable \in BOOLEAN
    /\ options = opts
    /\ react_add_handler = IF kind = "Reaction" THEN "add_vote_event" ELSE None
    /\ react_remove_handler = IF kind = "Reaction" THEN "remove_vote_event" ELSE None
    /\ total_votes = 0
    /\ members_voted = <<>>
    /\ single_choice \in choices
    /\ listeners = [add |-> 0, remove |-> 0]
    /\ rendered = None
    /\ deleted = FALSE
    /\ live = {}
    /\ calls = {}
    /\ pending = <<>>
    /\ handlers = {}
    /\ nCalls = 0
    /\ nEvents = 0
    /\ delivered = 0
    /\ lastCallback = <<0, 0>>
    /\ default_options = <<>>
    /\ shares_default = FALSE
    /\ lastCall = NoCall
    /\ rejected = NoRejected
    /\ results = NoResults
    /\ role_events = <<>>
    /\ corrective = NoCorrective

\* The steps of the menu's coroutines.
MenuNext(maxCalls) ==
    \/ Enable(maxCalls)
    \/ Disable(maxCalls)
    \/ SendMenu(maxCalls)
    \/ \E c \in calls : SendMenuSent(c)
    \/ \E c \in calls : MessageEdited(c)
    \/ \E c \in calls : MessageFetched(c)
    \/ \E c \in calls : ClearDone(c)
    \/ \E c \in calls, ok \in BOOLEAN : AddReactionDone(c, ok)
    \/ \E c \in calls : CallRaised(c)
    \/ HandlerStart
    \/ \E h \in handlers : EventFetched(h)
    \/ \E h \in handlers : ReactionRemoved(h)
    \/ \E h \in handlers : EventRaised(h)
    \/ DeleteMenu

\* What the members of the guild do.
MembersNext(maxEvents, members, emojis) ==
    \/ \E m \in members, e \in emojis, mid \in {MenuMessage, OtherMessage} :
           ReactionAdd(maxEvents, m, e, mid)
    \/ \E m \in members, e \in emojis, mid \in {MenuMessage, OtherMessage} :
           ReactionRemove(maxEvents, m, e, mid)

\* The menu's life and its event dispatch: a menu of one option, a person
\* and a bot who react with the option's emoji and with a foreign one.
Init == InitWith(<<MenuOption(ThumbsUp, "yes")>>, {FALSE})

Next == MenuNext(MaxCalls) \/ MembersNext(MaxEvents, {"u1", "bot"}, {ThumbsUp, Party})

Spec == Init /\ [][Next]_vars

\* The same with one more call and one more event.
RaceNext == MenuNext(RaceCalls) \/ MembersNext(RaceEvents, {"u1", "bot"}, {ThumbsUp, Party})

RaceSpec == Init /\ [][RaceNext]_vars

\* The menu is sent, enabled and disabled, in any order and any state, and
\* each call of enable and disable is put on record.  Nobody reacts, so
\* add_reactions finds no reaction to clear.
ToggleNext ==
    \/ EnableRecorded(ToggleCalls)
    \/ DisableRecorded(ToggleCalls)
    \/ SendMenu(ToggleCalls)
    \/ \E c \in calls : SendMenuSent(c)
    \/ \E c \in calls : MessageEdited(c)
    \/ \E c \in calls : MessageFetched(c)
    \/ \E c \in calls, ok \in BOOLEAN : AddReactionDone(c, ok)
    \/ \E c \in calls : CallRaised(c)

ToggleSpec == Init /\ [][ToggleNext]_vars

\* No send_menu, enable or disable coroutine is suspended.
NoCallInProgress == calls = {}

\* The menu is sent, enabled and disabled one call after the other: a call
\* is made when the one before it has returned or raised.  Nobody reacts.
SendNext ==
    \/ NoCallInProgress /\ Enable(SendCalls)
    \/ NoCallInProgress /\ Disable(SendCalls)
    \/ NoCallInProgress /\ SendMenu(SendCalls)
    \/ \E c \in calls : SendMenuSent(c)
    \/ \E c \in calls : MessageEdited(c)
    \/ \E c \in calls : MessageFetched(c)
    \/ \E c \in calls, ok \in BOOLEAN : AddReactionDone(c, ok)
    \/ \E c \in calls : CallRaised(c)

SendSpec == Init /\ [][SendNext]_vars

----------------------------------------------------------------------------
(* The option store alone *)

\* add_option called on the menu.  The dict it writes is the default dict of
\* __init__ when the menu was constructed without options.
AddOption(given_emoji, description) ==
    /\ Len(options) < MaxStore
    /\ LET r == add_option(options, given_emoji, description)
       IN /\ options' = r.options
          /\ default_options' = IF shares_default THEN r.options ELSE default_options
          /\ lastCall' = [op |-> "add_option", given |-> given_emoji,
                          description |-> description, before |-> options,
                          returned |-> r.returned]
    /\ UNCHANGED <<kind, enabled, message, message_id, auto_enable, react_add_handler,
                   react_remove_handler, total_votes, members_voted, single_choice,
                   platformVars, calls, pending, handlers, nCalls, nEvents, delivered,
                   lastCallback, shares_default, pollVars>>

\* remove_option called on the menu.
RemoveOption(given_emoji) ==
    /\ LET r == remove_option(options, given_emoji)
       IN /\ options' = r.options
          /\ default_options' = IF shares_default THEN r.options ELSE default_options
          /\ lastCall' = [op |-> "remove_option", given |-> given_emoji,
                          description |-> None, before |-> options,
                          returned |-> r.returned]
    /\ UNCHANGED <<kind, enabled, message, message_id, auto_enable, react_add_handler,
                   react_remove_handler, total_votes, members_voted, single_choice,
                   platformVars, calls, pending, handlers, nCalls, nEvents, delivered,
                   lastCallback, shares_default, pollVars>>

\* A menu as its constructor leaves it: without options, on the default
\* dict, or with the options of a stored menu (from_dict).
StoreInit ==
    /\ kind = "Reaction"
    /\ enabled = FALSE
    /\ message = None
    /\ message_id = None
    /\ auto_enable = FALSE
    /\ shares_default \in BOOLEAN
    /\ default_options = <<>>
    /\ options \in IF shares_default THEN {<<>>}
                  ELSE {<<>>, <<[emoji |-> ThumbsUp, description |-> "yes",
                                 reaction_count |-> 2]>>}
    /\ react_add_handler = "add_vote_event"
    /\ react_remove_handler = "remove_vote_event"
    /\ total_votes = 0
    /\ members_voted = <<>>
    /\ single_choice = FALSE
    /\ listeners = [add |-> 0, remove |-> 0]
    /\ rendered = None
    /\ deleted = FALSE
    /\ live = {}
    /\ calls = {}
    /\ pending = <<>>
    /\ handlers = {}
    /\ nCalls = 0
    /\ nEvents = 0
    /\ delivered = 0
    /\ lastCallback = <<0, 0>>
    /\ lastCall = NoCall
    /\ rejected = NoRejected
    /\ results = NoResults
    /\ role_events = <<>>
    /\ corrective = NoCorrective

StoreNext ==
    \/ \E g \in GivenEmojis, d \in {"yes", "no"} : AddOption(g, d)
    \/ \E g \in GivenEmojis : RemoveOption(g)

StoreSpec == StoreInit /\ [][StoreNext]_vars

----------------------------------------------------------------------------
(* The poll alone *)

\* A poll of two options that send_menu (auto_enable) has sent and enabled:
\* the message shows it enabled and bears the bot's reaction for each
\* option, and both handlers are registered.
PollInit ==
    /\ kind = "Reaction"
    /\ enabled = TRUE
    /\ message = MenuMessage
    /\ message_id = MenuMessage
    /\ auto_enable = TRUE
    /\ options = <<MenuOption(ThumbsUp, "yes"), MenuOption(ThumbsDown, "no")>>
    /\ react_add_handler = "add_vote_event"
    /\ react_remove_handler = "remove_vote_event"
    /\ total_votes = 0
    /\ members_voted = <<>>
    /\ single_choice \in BOOLEAN
    /\ listeners = [add |-> 1, remove |-> 1]
    /\ rendered = TRUE
    /\ deleted = FALSE
    /\ live = {<<ThumbsUp, Self>>, <<ThumbsDown, Self>>}
    /\ calls = {}
    /\ pending = <<>>
    /\ handlers = {}
    /\ nCalls = 1
    /\ nEvents = 0
    /\ delivered = 0
    /\ lastCallback = <<0, 0>>
    /\ default_options = <<>>
    /\ shares_default = FALSE
    /\ lastCall = NoCall
    /\ rejected = NoRejected
    /\ results = NoResults
    /\ role_events = <<>>
    /\ corrective = NoCorrective

\* Two members vote and take their votes back, and the handlers run.
PollNext ==
    \/ \E m \in Users, e \in {ThumbsUp, ThumbsDown} : ReactionAdd(PollEvents, m, e, MenuMessage)
    \/ \E m \in Users, e \in {ThumbsUp, ThumbsDown} :
           ReactionRemove(PollEvents, m, e, MenuMessage)
    \/ HandlerStart
    \/ \E h \in handlers : EventFetched(h)
    \/ \E h \in handlers : ReactionRemoved(h)

PollSpec == PollInit /\ [][PollNext]_vars

----------------------------------------------------------------------------
(* One member's second vote in a single_choice poll *)

\* The single_choice poll as sent and enabled.
SwitchInit == PollInit /\ single_choice

\* u1 reacts, and never takes a reaction back: every remove-event of u1 is
\* the one add_vote_event's remove_reaction brings about.  u2 votes and
\* takes votes back in between, and a platform call of a handler may raise.
SwitchNext ==
    \/ \E e \in {ThumbsUp, ThumbsDown} : ReactionAdd(SwitchEvents, "u1", e, MenuMessage)
    \/ \E e \in {ThumbsUp, ThumbsDown} : ReactionAdd(SwitchEvents, "u2", e, MenuMessage)
    \/ \E e \in {ThumbsUp, ThumbsDown} : ReactionRemove(SwitchEvents, "u2", e, MenuMessage)
    \/ HandlerStart
    \/ \E h \in handlers : EventFetched(h)
    \/ \E h \in handlers : ReactionRemoved(h)
    \/ \E h \in handlers : EventRaised(h)

SwitchSpec == SwitchInit /\ [][SwitchNext]_vars

\* The scenario of two votes: in the single_choice poll u1 reacts with
\* thumbsup and then with thumbsdown; after that u2 votes and takes votes
\* back.
ScenarioNext ==
    \/ nEvents = 0 /\ ReactionAdd(ScenarioEvents, "u1", ThumbsUp, MenuMessage)
    \/ nEvents = 1 /\ ReactionAdd(ScenarioEvents, "u1", ThumbsDown, MenuMessage)
    \/ \E e \in {ThumbsUp, ThumbsDown} :
           nEvents >= 2 /\ ReactionAdd(ScenarioEvents, "u2", e, MenuMessage)
    \/ \E e \in {ThumbsUp, ThumbsDown} :
           nEvents >= 2 /\ ReactionRemove(ScenarioEvents, "u2", e, MenuMessage)
    \/ HandlerStart
    \/ \E h \in handlers : EventFetched(h)
    \/ \E h \in handlers : ReactionRemoved(h)
    \/ \E h \in handlers : EventRaised(h)

ScenarioSpec == SwitchInit /\ [][ScenarioNext]_vars

----------------------------------------------------------------------------
(* Saving and loading a menu *)

\* The title and the description the menu was made with.
Title == "Poll"
Description == "Vote here"

\* What to_dict and from_dict are about in a menu: its title, description,
\* enabled flag and options.
ThisMenu ==
    [title |-> Title, description |-> Description, enabled |-> enabled,
     options |-> options]

\* No menu: what a from_dict that raised has returned.
NoMenu == [title |-> None, description |-> None, enabled |-> FALSE, options |-> <<>>]

\* MenuOption.to_dict: the dict of the emoji (PartialEmoji.to_dict: name and
\* id), the description and the count.
OptionToDict(option) ==
    [emoji |-> [name |-> option.emoji.name, id |-> option.emoji.id],
     description |-> option.description, reaction_count |-> option.reaction_count]

\* MenuBase.to_dict, of the keys named above.
to_dict(menu) ==
    [title |-> menu.title, description |-> menu.description, enabled |-> menu.enabled,
     options |-> [i \in 1..Len(menu.options) |-> OptionToDict(menu.options[i])]]

\* MenuBase.from_dict.  It makes each option with MenuOption(x), the dict
\* as the only argument of a constructor that requires an emoji and a
\* description: TypeError for the first option there is.  Without options
\* MenuBase(**data) makes the menu; "enabled" is no parameter of the
\* constructor and ends in **kwargs, and the constructor sets
\* self.enabled = False.
from_dict(data) ==
    IF data.options # <<>> THEN [raised |-> "TypeError", menu |-> NoMenu]
    ELSE [raised |-> None,
          menu |-> [title |-> data.title, description |-> data.description,
                    enabled |-> FALSE, options |-> <<>>]]

\* The digits of the texts.
Digits == {"0", "7"}

RECURSIVE Decimal(_)
\* The number a text of digits stands for.
Decimal(text) ==
    IF text = <<>> THEN 0
    ELSE Decimal(SubSeq(text, 1, Len(text) - 1)) * 10
            + (IF text[Len(text)] = "0" THEN 0 ELSE 7)

\* int(x) for the stored reaction_count x: an int is itself, a float is cut
\* off, a str of digits is its number and any other str raises ValueError,
\* and None, which data.get gives for a missing key, raises TypeError.
IntOf(x) ==
    IF "int" \in DOMAIN x THEN [raised |-> None, value |-> x.int]
    ELSE IF "float" \in DOMAIN x THEN [raised |-> None, value |-> x.float]
    ELSE IF "str" \in DOMAIN x
    THEN LET text == Strip(x.str)
         IN IF text # <<>> /\ \A i \in 1..Len(text) : text[i] \in Digits
            THEN [raised |-> None, value |-> Decimal(text)]
            ELSE [raised |-> "ValueError", value |-> 0]
    ELSE [raised |-> "TypeError", value |-> 0]

\* No option: what a MenuOption.from_dict that raised has returned.
NoOption == [emoji |-> NoPartial, description |-> None, reaction_count |-> 0]

\* MenuOption.from_dict: the emoji is made a ReactionEmoji, the count an
\* int, or 0 where int() raises ValueError; any other exception leaves it.
OptionFromDict(data) ==
    LET emoji == ReactionEmoji(data.emoji)
        count == IntOf(data.reaction_count)
    IN IF emoji.raised # None THEN [raised |-> emoji.raised, option |-> NoOption]
       ELSE IF count.raised = "TypeError" THEN [raised |-> "TypeError", option |-> NoOption]
       ELSE [raised |-> None,
             option |-> [emoji |-> emoji.partial, description |-> data.description,
                         reaction_count |-> IF count.raised = "ValueError" THEN 0
                                            ELSE count.value]]

\* The reaction_count of a stored option: an int, a float (2.5, of which
\* `float` is the whole part), a str of digits, another str, or none.
StoredCounts == {[int |-> 2], [float |-> 2], [str |-> <<"7">>], [str |-> PlainText],
                 [missing |-> TRUE]}

\* The dicts of stored options.
StoredOptions ==
    {[emoji |-> [dict |-> e], description |-> "yes", reaction_count |-> c] :
        e \in {[name |-> UnicodeText, id |-> <<>>], [name |-> PlainText, id |-> <<"7">>]},
        c \in StoredCounts}

\* MenuOption.from_dict called on a stored option.
LoadOption(data) ==
    /\ lastCall' = [op |-> "MenuOption.from_dict", given |-> data, description |-> None,
                    before |-> options, returned |-> OptionFromDict(data)]
    /\ UNCHANGED <<kind, menuVars, platformVars, calls, pending, handlers, nCalls, nEvents,
                   delivered, lastCallback, default_options, shares_default, pollVars>>

\* MenuBase.from_dict called on a stored menu with these options: the menu
\* it returns, if it returns one, is the menu from then on.
LoadMenu(stored) ==
    /\ LET r == from_dict([title |-> Title, description |-> Description,
                           enabled |-> enabled, options |-> stored])
       IN /\ lastCall' = [op |-> "MenuBase.from_dict", given |-> stored,
                          description |-> None, before |-> options, returned |-> r]
          /\ options' = IF r.raised = None THEN r.menu.options ELSE options
          /\ enabled' = IF r.raised = None THEN r.menu.enabled ELSE enabled
    /\ UNCHANGED <<kind, message, message_id, auto_enable, react_add_handler,
                   react_remove_handler, total_votes, members_voted, single_choice,
                   platformVars, calls, pending, handlers, nCalls, nEvents, delivered,
                   lastCallback, default_options, shares_default, pollVars>>

\* Stored options and stored menus are loaded.
LoadNext ==
    \/ \E data \in StoredOptions : LoadOption(data)
    \/ \E stored \in UNION {[1..k -> StoredOptions] : k \in 0..MaxStored} : LoadMenu(stored)

LoadSpec == StoreInit /\ [][LoadNext]_vars

----------------------------------------------------------------------------
(* A menu that gives roles *)

RECURSIVE LStrip(_, _)
\* str.lstrip(chars): the text without its leading characters of chars.
LStrip(text, chars) ==
    IF text # <<>> /\ Head(text) \in chars THEN LStrip(Tail(text), chars) ELSE text

RECURSIVE RStrip(_, _)
\* str.rstrip(chars): the text without its trailing characters of chars.
RStrip(text, chars) ==
    IF text # <<>> /\ text[Len(text)] \in chars
    THEN RStrip(SubSeq(text, 1, Len(text) - 1), chars)
    ELSE text

\* clean_mentioned_role: the number of a mention <@&number>, or of a bare
\* number, and 0 for a text int() does not take.
clean_mentioned_role(role) ==
    LET id == IntOf([str |-> RStrip(LStrip(Strip(role), {"<", "@", "&"}), {">"})])
    IN IF id.raised = "ValueError" THEN 0 ELSE id.value

\* The roles of the guild, by id.
GuildRoles == {7}

\* get_role_from_id: the role of the guild with this id, or None.
get_role_from_id(role_id) == IF role_id \in GuildRoles THEN [role |-> role_id] ELSE NoPartial

\* The value of an option: the text the option was added with.
OptionValue(option) == option.description

\* The role id both callbacks look up for the emoji of their payload.
RoleIdOf(opts, emoji) ==
    IF HasOption(opts, emoji_id(emoji))
    THEN clean_mentioned_role(OptionValue(OptionOf(opts, emoji_id(emoji))))
    ELSE 0

\* The calls of a callback that made none yet.
NoRoleCalls == [add_roles |-> 0, remove_roles |-> 0, remove_reaction |-> 0, role |-> NoPartial]

\* give_role_event as it would be without its `if not role_id` test.
give_role_event_unchecked(opts, emoji) ==
    LET role_id == RoleIdOf(opts, emoji)
    IN [NoRoleCalls EXCEPT !.add_roles = 1, !.role = get_role_from_id(role_id)]

\* give_role_event up to its one await: without a role id the reaction is
\* removed, with one the member is given the role found for it.
give_role_event(opts, emoji) ==
    LET role_id == RoleIdOf(opts, emoji)
    IN IF role_id = 0 THEN [NoRoleCalls EXCEPT !.remove_reaction = 1]
       ELSE [NoRoleCalls EXCEPT !.add_roles = 1, !.role = get_role_from_id(role_id)]

\* remove_role_event once it has the member: without a role id it returns,
\* with one the role found for it is taken from the member.
remove_role_event(opts, emoji) ==
    LET role_id == RoleIdOf(opts, emoji)
    IN IF role_id = 0 THEN NoRoleCalls
       ELSE [NoRoleCalls EXCEPT !.remove_roles = 1, !.role = get_role_from_id(role_id)]

\* A callback of the role menu: its payload, how it came by the member,
\* the calls it made, and where it is: at fetch_member, over, or raised
\* there.
RoleEvent(callback, member, emoji, fetch, role_calls, pc) ==
    [callback |-> callback, member |-> member, emoji |-> emoji, fetch |-> fetch,
     calls |-> role_calls, pc |-> pc]

\* give_role_event is called with a payload and runs to its end: its one
\* await returns or raises.
GiveRoleEvent(member, emoji) ==
    /\ nEvents < RoleEvents
    /\ nEvents' = nEvents + 1
    /\ role_events' = Append(role_events,
                             RoleEvent("give_role_event", member, emoji, "payload",
                                       give_role_event(options, emoji), "over"))
    /\ UNCHANGED <<kind, menuVars, platformVars, calls, pending, handlers, nCalls,
                   delivered, lastCallback, storeVars, rejected, results,
                   corrective>>

\* remove_role_event is called with a payload: guild.get_member knows the
\* member and the callback runs to its end, or does not and fetch_member
\* is awaited.
RemoveRoleEvent(member, emoji, cached) ==
    /\ nEvents < RoleEvents
    /\ nEvents' = nEvents + 1
    /\ role_events' =
          Append(role_events,
                 IF cached
                 THEN RoleEvent("remove_role_event", member, emoji, "cached",
                                remove_role_event(options, emoji), "over")
                 ELSE RoleEvent("remove_role_event", member, emoji, "fetch_member",
                                NoRoleCalls, "fetch_member"))
    /\ UNCHANGED <<kind, menuVars, platformVars, calls, pending, handlers, nCalls,
                   delivered, lastCallback, storeVars, rejected, results,
                   corrective>>

\* fetch_member returns the member and remove_role_event runs to its end.
MemberFetched(i) ==
    /\ role_events[i].pc = "fetch_member"
    /\ role_events' = [role_events EXCEPT
                          ![i].fetch = "fetched",
                          ![i].calls = remove_role_event(options, role_events[i].emoji),
                          ![i].pc = "over"]
    /\ UNCHANGED <<kind, menuVars, platformVars, calls, pending, handlers, nCalls, nEvents,
                   delivered, lastCallback, storeVars, rejected, results,
                   corrective>>

\* fetch_member raises and remove_role_event with it.
MemberNotFetched(i) ==
    /\ role_events[i].pc = "fetch_member"
    /\ role_events' = [role_events EXCEPT ![i].fetch = "failed", ![i].pc = "raised"]
    /\ UNCHANGED <<kind, menuVars, platformVars, calls, pending, handlers, nCalls, nEvents,
                   delivered, lastCallback, storeVars, rejected, results,
                   corrective>>

\* The values of a role menu's options: mentions of a role, with and
\* without blanks, of a role the guild does not have and of role 0, a
\* bare id, and texts that are no mention.
RoleValues ==
    {<<"<", "@", "&", "7", ">">>, <<" ", "<", "@", "&", "7", ">", " ">>, <<"7">>,
     <<"<", "@", "&", "7", "7", ">">>, <<"<", "@", "&", "0", ">">>,
     <<"<", "@", "&", "p", ">">>, <<"p">>, <<>>}

\* A role menu with two options, the second without a role, sent and
\* enabled.
RoleInit ==
    /\ kind = "Reaction"
    /\ enabled = TRUE
    /\ message = MenuMessage
    /\ message_id = MenuMessage
    /\ auto_enable = TRUE
    /\ options \in {<<MenuOption(ThumbsUp, value), MenuOption(ThumbsDown, <<"p">>)>> :
                       value \in RoleValues}
    /\ react_add_handler = "give_role_event"
    /\ react_remove_handler = "remove_role_event"
    /\ total_votes = 0
    /\ members_voted = <<>>
    /\ single_choice = FALSE
    /\ listeners = [add |-> 1, remove |-> 1]
    /\ rendered = TRUE
    /\ deleted = FALSE
    /\ live = {<<ThumbsUp, Self>>, <<ThumbsDown, Self>>}
    /\ calls = {}
    /\ pending = <<>>
    /\ handlers = {}
    /\ nCalls = 1
    /\ nEvents = 0
    /\ delivered = 0
    /\ lastCallback = <<0, 0>>
    /\ default_options = <<>>
    /\ shares_default = FALSE
    /\ lastCall = NoCall
    /\ rejected = NoRejected
    /\ results = NoResults
    /\ role_events = <<>>
    /\ corrective = NoCorrective

\* Members add and take away reactions of the menu's message.
RoleNext ==
    \/ \E member \in Users, emoji \in Emojis : GiveRoleEvent(member, emoji)
    \/ \E member \in Users, emoji \in Emojis, cached \in BOOLEAN :
          RemoveRoleEvent(member, emoji, cached)
    \/ \E i \in 1..Len(role_events) : MemberFetched(i)
    \/ \E i \in 1..Len(role_events) : MemberNotFetched(i)

RoleSpec == RoleInit /\ [][RoleNext]_vars

----------------------------------------------------------------------------
(* The results of a poll *)

\* int(n / d) of Python for integers n and d # 0: the quotient cut off
\* towards zero.
Truncated(n, d) ==
    LET abs(x) == IF x < 0 THEN -x ELSE x
    IN IF (n < 0) = (d < 0) THEN abs(n) \div abs(d) ELSE -(abs(n) \div abs(d))

\* The loop of _get_winning_option over the first n options: the ids of the
\* winners so far and their count, ([], -1) before the first.
RECURSIVE WinnerAmong(_, _)
WinnerAmong(opts, n) ==
    IF n = 0 THEN [ids |-> <<>>, votes |-> -1]
    ELSE LET winner == WinnerAmong(opts, n - 1)
             count == opts[n].reaction_count
         IN IF count > winner.votes
            THEN [ids |-> <<OptionId(opts[n])>>, votes |-> count]
            ELSE IF count = winner.votes
            THEN [ids |-> Append(winner.ids, OptionId(opts[n])), votes |-> winner.votes]
            ELSE winner

\* _get_winning_option as it would be if an option that ties with the
\* winner so far took its place.
_get_winning_option_last(opts) ==
    LET counts == {opts[i].reaction_count : i \in 1..Len(opts)} \cup {-1}
        best == CHOOSE c \in counts : \A d \in counts : d <= c
        last == CHOOSE i \in 1..Len(opts) :
                    /\ opts[i].reaction_count = best
                    /\ \A j \in 1..Len(opts) : opts[j].reaction_count = best => j <= i
    IN IF opts = <<>> THEN [ids |-> <<>>, votes |-> -1]
       ELSE [ids |-> <<OptionId(opts[last])>>, votes |-> best]

\* _get_winning_option: the ids of the options of the highest count, in the
\* order of the options, and that count.
_get_winning_option(opts) == WinnerAmong(opts, Len(opts))

\* generate_bar as it would be if it worked the bar out of the count and
\* BAR_MAX_LENGTH alone.
generate_bar_absolute(opts, option_id, winning_votes, is_winner) ==
    LET option == OptionOf(opts, option_id)
        count == IF option.reaction_count > BAR_MAX_LENGTH THEN BAR_MAX_LENGTH
                 ELSE option.reaction_count
    IN [raised |-> None, id |-> option_id, bar_length |-> count,
        is_winner |-> is_winner, reaction_count |-> option.reaction_count]

\* generate_bar: the bar of an option, int((reaction_count / winning_votes)
\* * BAR_MAX_LENGTH) long; the division raises when winning_votes is 0.  In
\* double arithmetic the product is, for the counts of a poll, so near the
\* exact quotient that int() cuts it to the same integer.
generate_bar(opts, option_id, winning_votes, is_winner) ==
    LET option == OptionOf(opts, option_id)
    IN IF winning_votes = 0
       THEN [raised |-> "ZeroDivisionError", id |-> option_id, bar_length |-> 0,
             is_winner |-> is_winner, reaction_count |-> option.reaction_count]
       ELSE [raised |-> None, id |-> option_id,
             bar_length |-> Truncated(option.reaction_count * BAR_MAX_LENGTH,
                                      winning_votes),
             is_winner |-> is_winner, reaction_count |-> option.reaction_count]

\* sorted(..., key=reaction_count, reverse=True): the options by falling
\* count, those of one count in the order they had.
RECURSIVE SortedByCount(_)
SortedByCount(opts) ==
    IF opts = <<>> THEN <<>>
    ELSE LET rest == SortedByCount(Tail(opts))
             above == SelectSeq(rest, LAMBDA o :
                                    o.reaction_count > Head(opts).reaction_count)
             below == SelectSeq(rest, LAMBDA o :
                                    o.reaction_count <= Head(opts).reaction_count)
         IN above \o <<Head(opts)>> \o below

\* generate_results_string as it would be if it listed the options that
\* did not win in the order of the options.
generate_results_string_unsorted(opts) ==
    LET winner == _get_winning_option(opts)
        remaining_options == SelectSeq(opts, LAMBDA o : OptionId(o) \notin Range(winner.ids))
        order == winner.ids \o OptionKeys(remaining_options)
        bars == [i \in 1..Len(order) |->
                    generate_bar(opts, order[i], winner.votes, i <= Len(winner.ids))]
    IN IF \E i \in 1..Len(bars) : bars[i].raised # None
       THEN [raised |-> "ZeroDivisionError", string |-> None, bars |-> <<>>]
       ELSE [raised |-> None, string |-> "bars", bars |-> bars]

\* generate_results_string: the bars of the winners, in the order
\* _get_winning_option gives them, then the bars of the other options by
\* falling count.  One bar that raises ends it.
generate_results_string(opts) ==
    LET winner == _get_winning_option(opts)
        remaining_options == SelectSeq(opts, LAMBDA o : OptionId(o) \notin Range(winner.ids))
        order == winner.ids \o OptionKeys(SortedByCount(remaining_options))
        bars == [i \in 1..Len(order) |->
                    generate_bar(opts, order[i], winner.votes, i <= Len(winner.ids))]
    IN IF \E i \in 1..Len(bars) : bars[i].raised # None
       THEN [raised |-> "ZeroDivisionError", string |-> None, bars |-> <<>>]
       ELSE [raised |-> None, string |-> "bars", bars |-> bars]

\* generate_results: the field "Results" of the embed it returns.
generate_results(opts, votes) ==
    IF votes > 0 THEN generate_results_string(opts)
    ELSE [raised |-> None, string |-> NO_VOTES_STRING, bars |-> <<>>]

\* generate_results called on the poll.
GenerateResults ==
    /\ results' = generate_results(options, total_votes)
    /\ UNCHANGED <<kind, menuVars, platformVars, calls, pending, handlers, nCalls, nEvents,
                   delivered, lastCallback, storeVars, rejected, role_events,
                   corrective>>

\* The emojis of the options of the polls below, in their order.
ResultsEmojis == <<ThumbsUp, ThumbsDown, Party>>

\* The sum of the counts of the options.
RECURSIVE SumOfCounts(_)
SumOfCounts(opts) ==
    IF opts = <<>> THEN 0 ELSE Head(opts).reaction_count + SumOfCounts(Tail(opts))

\* The polls of at most three options that have been voted on: each option
\* has its votes, and total_votes is their sum.
VotedOptions ==
    UNION {{[i \in 1..k |-> [emoji |-> ResultsEmojis[i], description |-> "yes",
                              reaction_count |-> counts[i]]] :
               counts \in [1..k -> 0..MaxVotes]} : k \in 0..Len(ResultsEmojis)}

\* A poll made with such options (MenuOption.from_dict keeps the counts)
\* and their sum as vote_count, not sent yet.
ResultsInit ==
    /\ kind = "Reaction"
    /\ enabled = FALSE
    /\ message = None
    /\ message_id = None
    /\ auto_enable = FALSE
    /\ shares_default = FALSE
    /\ default_options = <<>>
    /\ options \in VotedOptions
    /\ react_add_handler = "add_vote_event"
    /\ react_remove_handler = "remove_vote_event"
    /\ total_votes = SumOfCounts(options)
    /\ members_voted = <<>>
    /\ single_choice = FALSE
    /\ listeners = [add |-> 0, remove |-> 0]
    /\ rendered = None
    /\ deleted = FALSE
    /\ live = {}
    /\ calls = {}
    /\ pending = <<>>
    /\ handlers = {}
    /\ nCalls = 0
    /\ nEvents = 0
    /\ delivered = 0
    /\ lastCallback = <<0, 0>>
    /\ lastCall = NoCall
    /\ rejected = NoRejected
    /\ results = NoResults
    /\ role_events = <<>>
    /\ corrective = NoCorrective

\* The cog removes options (remove_option) and asks for the results.
ResultsNext ==
    \/ \E e \in Range(ResultsEmojis) : RemoveOption([partial |-> e])
    \/ GenerateResults

ResultsSpec == ResultsInit /\ [][ResultsNext]_vars

\* A poll whose members vote while the cog adds and removes options.
TallyNext ==
    \/ \E m \in Users, e \in {ThumbsUp, ThumbsDown} : ReactionAdd(TallyEvents, m, e, MenuMessage)
    \/ \E m \in Users, e \in {ThumbsUp, ThumbsDown} :
           ReactionRemove(TallyEvents, m, e, MenuMessage)
    \/ HandlerStart
    \/ \E h \in handlers : EventFetched(h)
    \/ \E h \in handlers : ReactionRemoved(h)
    \/ AddOption([partial |-> Party], "maybe")
    \/ \E e \in {ThumbsUp, Party} : RemoveOption([partial |-> e])

TallySpec == PollInit /\ [][TallyNext]_vars

\* A poll of one option, sent and enabled.
FrameInit ==
    /\ kind = "Reaction"
    /\ enabled = TRUE
    /\ message = MenuMessage
    /\ message_id = MenuMessage
    /\ auto_enable = TRUE
    /\ options = <<MenuOption(ThumbsUp, "yes")>>
    /\ react_add_handler = "add_vote_event"
    /\ react_remove_handler = "remove_vote_event"
    /\ total_votes = 0
    /\ members_voted = <<>>
    /\ single_choice \in BOOLEAN
    /\ listeners = [add |-> 1, remove |-> 1]
    /\ rendered = TRUE
    /\ deleted = FALSE
    /\ live = {<<ThumbsUp, Self>>}
    /\ calls = {}
    /\ pending = <<>>
    /\ handlers = {}
    /\ nCalls = 1
    /\ nEvents = 0
    /\ delivered = 0
    /\ lastCallback = <<0, 0>>
    /\ default_options = <<>>
    /\ shares_default = FALSE
    /\ lastCall = NoCall
    /\ rejected = NoRejected
    /\ results = NoResults
    /\ role_events = <<>>
    /\ corrective = NoCorrective

\* A poll whose members vote and react with an emoji that is no option,
\* while the cog makes that emoji an option.
FrameNext ==
    \/ \E m \in Users, e \in {ThumbsUp, Party} : ReactionAdd(FrameEvents, m, e, MenuMessage)
    \/ \E m \in Users : ReactionRemove(FrameEvents, m, ThumbsUp, MenuMessage)
    \/ HandlerStart
    \/ \E h \in handlers : EventFetched(h)
    \/ \E h \in handlers : ReactionRemoved(h)
    \/ AddOption([partial |-> Party], "maybe")

FrameSpec == FrameInit /\ [][FrameNext]_vars

----------------------------------------------------------------------------
(* The reconciler alone *)

\* The option lists of at most n options, each of another emoji.
OptionLists(n) ==
    {opts \in UNION {[1..k -> {MenuOption(e, "yes") : e \in Emojis}] : k \in 0..n} :
        \A i, j \in 1..Len(opts) : i # j => opts[i] # opts[j]}

\* A reaction menu that was sent and is disabled, with the options its maker
\* gave it and the reactions the members and the bot have left on it.
ReconcileInit ==
    /\ kind = "Reaction"
    /\ enabled = FALSE
    /\ message = MenuMessage
    /\ message_id = MenuMessage
    /\ auto_enable = FALSE
    /\ options \in OptionLists(ReconcileOptions)
    /\ react_add_handler = "add_vote_event"
    /\ react_remove_handler = "remove_vote_event"
    /\ total_votes = 0
    /\ members_voted = <<>>
    /\ single_choice = FALSE
    /\ listeners = [add |-> 0, remove |-> 0]
    /\ rendered = FALSE
    /\ deleted = FALSE
    /\ live \in SUBSET (Emojis \X {"u1", Self})
    /\ calls = {}
    /\ pending = <<>>
    /\ handlers = {}
    /\ nCalls = 0
    /\ nEvents = 0
    /\ delivered = 0
    /\ lastCallback = <<0, 0>>
    /\ default_options = <<>>
    /\ shares_default = FALSE
    /\ lastCall = NoCall
    /\ rejected = NoRejected
    /\ results = NoResults
    /\ role_events = <<>>
    /\ corrective = NoCorrective

\* enable and disable called one after the other, each when the call before
\* it is over, on a platform whose every call succeeds.
ReconcileNext ==
    \/ calls = {} /\ Enable(ReconcileCalls)
    \/ calls = {} /\ Disable(ReconcileCalls)
    \/ \E c \in calls : MessageEdited(c)
    \/ \E c \in calls : MessageFetched(c)
    \/ \E c \in calls : ClearDone(c)
    \/ \E c \in calls : AddReactionDone(c, TRUE)

ReconcileSpec == ReconcileInit /\ [][ReconcileNext]_vars

----------------------------------------------------------------------------
(* The properties *)

\* The per-menu callback is called in this step, in the handler h.
CallbackRuns(h) ==
    /\ h \in handlers /\ h.pc = "fetch"
    /\ lastCallback' # lastCallback
    /\ lastCallback' = <<h.ev, h.copy>>

\* The filters of the dispatcher that do not look at the menu's enabled
\* flag: the event is of another message, or it is a bot's add-event.
Filtered(task) ==
    \/ task.payload.message_id # message_id
    \/ task.payload.type = "add" /\ task.payload.member \in Bots \cup {Self}

\* The emoji keys that have a reaction on the message.
KeysOn(lv) == {emoji_id(r[1]) : r \in lv}

\* The reactions on the message are those of the options, key for key.
Converged == KeysOn(live) = Range(OptionKeys(options))

\* C1: in every reachable state, after any calls of send_menu, enable and
\* disable, failed ones included, an enabled menu has a bound message.
C1_EnabledHasMessage == enabled => message # None

\* C2: when the edit that enable() or disable() awaits fails, the enabled
\* flag is back at the value it had before the call, the opposite of the
\* value the call set and built its embed from.
C2_FailedEditRollsBack ==
    [][\A c \in calls :
          (c.op \in {"enable", "disable"} /\ c.pc = "edit" /\ CallRaised(c))
          => enabled' = ~c.payload]_vars

\* C3: whenever no send_menu, enable or disable call is in progress on a
\* reaction menu, both handlers are registered if the menu is enabled, and
\* neither is if it is disabled.
C3_ListenersFollowEnabled ==
    (kind = "Reaction" /\ NoCallInProgress)
    => IF enabled THEN listeners.add >= 1 /\ listeners.remove >= 1
       ELSE listeners.add = 0 /\ listeners.remove = 0

\* C4: under any interleaving of enable and disable at their awaits, each
\* handler is registered at most once, and so the callback never runs in a
\* second coroutine of one event.
C4_NoDuplicateRegistration ==
    /\ listeners.add <= 1
    /\ listeners.remove <= 1
    /\ lastCallback[2] <= 1

\* C5: the per-menu callback is never called while enabled is false, not
\* even when disable() ran while the handler awaited its fetch.
C5_NoCallbackWhileDisabled ==
    [][lastCallback' # lastCallback => enabled]_vars

\* C6: the coroutine of an event of another message, and of an add-event of
\* a bot, ends where it starts: it calls no callback, leaves no handler
\* suspended at a platform call, and changes nothing of the menu (options,
\* tallies, enabled, message) nor of the platform.
C6_FilteredEventDropped ==
    [][(pending # <<>> /\ pending' = Tail(pending) /\ Filtered(Head(pending)))
       => UNCHANGED <<menuVars, platformVars, calls, handlers, lastCallback, storeVars>>]_vars

\* C6, its case: the menu is enabled with its add handler registered, and
\* the coroutine the event loop starts next is that of a bot's add-event on
\* the menu's own message, which nothing but the bot test would drop.
C6_BotEventScheduled ==
    /\ pending # <<>>
    /\ enabled /\ react_add_handler # None /\ listeners.add >= 1
    /\ Head(pending).payload.type = "add"
    /\ Head(pending).payload.member \in Bots
    /\ Head(pending).payload.message_id = message_id

\* C7, as the specification words it: the callback is never called for an
\* add-event whose emoji is not the key of an option.
C7_ForeignEmojiSkipsCallback ==
    [][\A h \in handlers :
          (h.type = "add" /\ ~HasOption(options, emoji_id(h.emoji)))
          => ~CallbackRuns(h)]_vars

\* C7, as the code has it: the dispatcher calls the callback for an
\* add-event whose emoji is not the key of an option, and the callback
\* (add_vote_event) goes to remove the reaction and tallies nothing.
C7_ForeignEmojiRemovedByCallback ==
    [][\A h \in handlers :
          (h.type = "add" /\ ~HasOption(options, emoji_id(h.emoji)) /\ CallbackRuns(h))
          => /\ handlers' = (handlers \ {h}) \cup {[h EXCEPT !.pc = "remove_reaction"]}
             /\ UNCHANGED <<options, total_votes, members_voted, enabled>>]_vars

\* C7, its case: the callback was called for an add-event with a foreign
\* emoji, and its handler awaits the removal of the reaction.
C7_ForeignEmojiBeingRemoved ==
    \E h \in handlers :
        /\ h.pc = "remove_reaction" /\ h.type = "add"
        /\ ~HasOption(options, emoji_id(h.emoji))
        /\ lastCallback = <<h.ev, h.copy>>

\* C8: once the message of the menu is deleted and nothing of the menu is
\* in progress any more, neither handler is registered.
C8_DeletedMenuUnbound ==
    (deleted /\ NoCallInProgress /\ handlers = {} /\ pending = <<>>)
    => listeners.add = 0 /\ listeners.remove = 0

\* C9: no two event handlers of the menu are in progress at once, each
\* started and neither finished.
C9_OneHandlerAtATime == Cardinality(handlers) <= 1

\* C10: the callbacks run in the order of delivery: none runs for an event
\* delivered before the event of the callback that ran last.
C10_CallbacksInDeliveryOrder ==
    [][lastCallback' # lastCallback => lastCallback'[1] >= lastCallback[1]]_vars

\* C11: with every platform call succeeding, a pass of the reconciler (the
\* fetch and add_reactions of an enable that is over) leaves on the message
\* the emoji keys of the options and no other, whatever was there before.
\* No step of it takes a reaction of an option off the message.
C11_PassConverges ==
    /\ []((calls = {} /\ enabled) => Converged)
    /\ [][\A r \in live \ live' : ~HasOption(options, emoji_id(r[1]))]_vars

\* C11, its case: an enable is over on a menu of two options, of which one
\* kept the reaction a member had left and the other got the bot's.
C11_PassDone ==
    /\ calls = {} /\ enabled /\ nCalls = 1
    /\ \E o, q \in Range(options) :
          /\ <<o.emoji, Self>> \in live /\ <<o.emoji, "u1">> \notin live
          /\ <<q.emoji, "u1">> \in live /\ <<q.emoji, Self>> \notin live

\* C12: a pass that starts (at its fetch) on a message that bears the keys
\* of the options, as a pass before it left it, ends at once: no
\* add_reaction and no clear is awaited, and the reactions are as they were.
C12_SecondPassIssuesNoCall ==
    [][\A c \in calls :
          (c.pc = "fetch" /\ enabled /\ Converged /\ MessageFetched(c))
          => /\ \A d \in calls' : d.id # c.id
             /\ live' = live]_vars

\* C12, its case: the second enable awaits its fetch, on the message the
\* first enable left with the bot's reaction for an option.
C12_SecondPassStarts ==
    /\ nCalls = 3 /\ enabled /\ Converged
    /\ \E c \in calls : c.pc = "fetch" /\ c.inner = "enable"
    /\ \E o \in Range(options) : <<o.emoji, Self>> \in live

\* C13: once a disable is over, the message bears no reaction.
C13_DisableClearsReactions == (calls = {} /\ ~enabled /\ nCalls > 0) => live = {}

\* C14: when a clear of a foreign reaction fails (the reaction is still on
\* the message and the clear is no longer awaited) while options are still
\* missing, the pass goes on to its next call.
C14_FailedClearIgnored ==
    [][\A c \in calls :
          (/\ c.pc = "clear" /\ c.missing # <<>>
           /\ c \notin calls'
           /\ \E r \in live' : r[1] = Head(c.reacts))
          => \E d \in calls' : d.id = c.id /\ d.pc \in {"clear", "add_reaction"}]_vars

\* The emoji the last add_option / remove_option call was given resolves to
\* a PartialEmoji.
Resolved ==
    /\ ReactionEmoji(lastCall.given).raised = None
    /\ ReactionEmoji(lastCall.given).partial # NoPartial

\* The key of that emoji.
GivenKey == emoji_id(ReactionEmoji(lastCall.given).partial)

\* C15: add_option with a resolvable emoji returns False and leaves the
\* options as they were when the key is there already; else it returns True
\* and has appended, after all the others, one option with the key, the
\* description given and reaction_count 0.
C15_AddOptionAppends ==
    (lastCall.op = "add_option" /\ Resolved)
    => IF HasOption(lastCall.before, GivenKey)
       THEN lastCall.returned = "False" /\ options = lastCall.before
       ELSE /\ lastCall.returned = "True"
            /\ options = Append(lastCall.before,
                                [emoji |-> ReactionEmoji(lastCall.given).partial,
                                 description |-> lastCall.description,
                                 reaction_count |-> 0])

\* C15, its case: add_option returned True on a menu that had an option, and
\* the new option is behind it.
C15_OptionAppended ==
    /\ lastCall.op = "add_option" /\ lastCall.returned = "True"
    /\ Len(lastCall.before) >= 1
    /\ OptionId(options[Len(options)]) = GivenKey

\* C16: add_option and remove_option with an emoji that does not resolve
\* return False, raise nothing, and leave the options as they were.
C16_UnresolvedReturnsFalse ==
    (lastCall.op # None /\ ~Resolved)
    => lastCall.returned = "False" /\ options = lastCall.before

\* C17: remove_option with a resolvable emoji returns True exactly when an
\* option with the key was there; after it none is, and the other options
\* are as they were, in their order.
C17_RemoveOptionPops ==
    (lastCall.op = "remove_option" /\ Resolved)
    => /\ lastCall.returned = "True" <=> HasOption(lastCall.before, GivenKey)
       /\ ~HasOption(options, GivenKey)
       /\ options = SelectSeq(lastCall.before, LAMBDA o : OptionId(o) # GivenKey)

\* C17, its case: remove_option returned True and took an option from
\* between or before others.
C17_OptionPopped ==
    /\ lastCall.op = "remove_option" /\ lastCall.returned = "True"
    /\ Len(lastCall.before) >= 2
    /\ OptionId(lastCall.before[1]) = GivenKey

\* remove_option is called, with the emoji the add_option before it had.
RemoveAfterAdd ==
    /\ lastCall.op = "add_option"
    /\ lastCall'.op = "remove_option"
    /\ lastCall'.given = lastCall.given

\* C18, as the specification words it: for every emoji, add_option followed
\* at once by remove_option of the same emoji leaves the options as they
\* were before the add.
C18_AddThenRemoveRestores ==
    [][RemoveAfterAdd => options' = lastCall.before]_vars

\* C18, as the code has it: add_option that returned True, followed at once
\* by remove_option of the same emoji, leaves the options as they were
\* before the add, and the remove_option returns True.
C18_AddedThenRemovedRestores ==
    [][(RemoveAfterAdd /\ lastCall.returned = "True")
       => options' = lastCall.before /\ lastCall'.returned = "True"]_vars

\* C18, its case: remove_option took the last option off a menu that is
\* left with another, as after an add_option of that emoji.
C18_LastOptionRemoved ==
    /\ lastCall.op = "remove_option" /\ lastCall.returned = "True"
    /\ options # <<>>
    /\ Len(lastCall.before) = Len(options) + 1
    /\ OptionId(lastCall.before[Len(lastCall.before)]) = GivenKey
    /\ lastCall.before[Len(lastCall.before)].reaction_count = 0

\* C19: add_option and remove_option on the menu leave the options of any
\* other menu as they are, those of a menu constructed without options
\* (whose dict is the default dict) included.
C19_OtherMenuUntouched ==
    [][lastCall' # lastCall => default_options' = default_options]_vars

\* C20: when the callback runs for an add-event with the emoji of an
\* option, that option's reaction_count and total_votes go up by one and
\* no other option changes.  If the poll is single_choice and the member is
\* in members_voted, the callback goes to remove the reaction (after which
\* it returns False); otherwise the member is appended to members_voted and
\* the callback returns (True) without a platform call.
C20_VoteTallied ==
    [][\A h \in handlers :
          (h.type = "add" /\ HasOption(options, emoji_id(h.emoji)) /\ CallbackRuns(h))
          => /\ Len(options') = Len(options)
             /\ \A i \in 1..Len(options) :
                   options'[i] =
                       [options[i] EXCEPT !.reaction_count =
                           IF OptionId(options[i]) = emoji_id(h.emoji) THEN @ + 1 ELSE @]
             /\ total_votes' = total_votes + 1
             /\ IF single_choice /\ h.member \in Range(members_voted)
                THEN /\ handlers' = (handlers \ {h}) \cup {[h EXCEPT !.pc = "remove_reaction"]}
                     /\ ~AddVoteEvent(h).returned
                ELSE /\ members_voted' = Append(members_voted, h.member)
                     /\ handlers' = handlers \ {h}
                     /\ AddVoteEvent(h).returned]_vars

\* C20, its case: in a single_choice poll the second vote of a member was
\* tallied, and the callback awaits the removal of the reaction.
C20_SecondVoteBeingRemoved ==
    /\ single_choice /\ total_votes = 2
    /\ \E h \in handlers :
          /\ h.pc = "remove_reaction" /\ h.type = "add"
          /\ HasOption(options, emoji_id(h.emoji))
          /\ lastCallback = <<h.ev, h.copy>>
          /\ Len(SelectSeq(members_voted, LAMBDA m : m = h.member)) = 2

\* C21: when the callback runs for a remove-event with the emoji of an
\* option and the member is not in members_voted, options, total_votes and
\* members_voted stay as they are; when the member is in members_voted,
\* that option's reaction_count and total_votes go down by one, one entry
\* of the member leaves members_voted, and the callback returns True.
C21_RemoveVoteReportsSuccess ==
    [][\A h \in handlers :
          (h.type = "remove" /\ HasOption(options, emoji_id(h.emoji)) /\ CallbackRuns(h))
          => IF h.member \notin Range(members_voted)
             THEN UNCHANGED <<options, total_votes, members_voted>>
             ELSE /\ options' = CountReaction(options, emoji_id(h.emoji), -1)
                  /\ total_votes' = total_votes - 1
                  /\ members_voted' = Without(members_voted, h.member)
                  /\ RemoveVoteEvent(h).returned]_vars

\* The callback runs in this step for the remove-event that followed the
\* removal of a vote turned down, and the member had no other event handled
\* since that vote.
FollowupRuns(h) ==
    /\ CallbackRuns(h)
    /\ h.type = "remove" /\ ~rejected.done /\ h.ev = rejected.followup
    /\ h.member = rejected.member /\ ~rejected.own

\* C22: in a single_choice poll, when the callback has run for the
\* remove-event that the removal of a vote turned down brought about,
\* however late and whatever events of other members were handled in
\* between, every option's reaction_count and total_votes are what they
\* were before that vote, changed by what the callbacks for the other
\* members did, and the member is as often in members_voted as before.
C22_RejectedVoteUndone ==
    [][\A h \in handlers :
          FollowupRuns(h)
          => /\ Counts(options') = rejected.counts
             /\ total_votes' = rejected.total_votes
             /\ Entries(members_voted', h.member) = rejected.entries]_vars

\* C22, its case: the callback has run for the remove-event that followed a
\* vote turned down, the votes of another member are in the tally, and the
\* member's first vote is all that is left of theirs.
C22_UndoneAfterOthersVoted ==
    /\ single_choice /\ rejected.ev # 0 /\ rejected.done /\ ~rejected.own
    /\ lastCallback[1] = rejected.followup
    /\ rejected.total_votes > rejected.entries
    /\ Counts(options) = rejected.counts
    /\ Entries(members_voted, rejected.member) = 1

\* No event of the member waits for its handler or is in one.
Settled(member) ==
    /\ \A i \in 1..Len(pending) : pending[i].payload.member # member
    /\ \A h \in handlers : h.member # member

\* C23: in a single_choice poll a member who only adds reactions, to
\* different options, has at most one vote in the tally (one entry in
\* members_voted, each entry being one counted vote) at any time; stated
\* here for the times when no event of the member is still to be handled.
C23_OneVotePerMember ==
    (single_choice /\ Settled("u1")) => Entries(members_voted, "u1") <= 1

\* u1 has reacted with thumbsup and then with thumbsdown, nobody else has
\* reacted, add_vote_event has turned a vote down, the remove-event of its
\* removal has been handled, and no event is left to handle.
BothVotesHandled ==
    /\ nEvents = 2 /\ pending = <<>> /\ handlers = {}
    /\ rejected.ev # 0 /\ rejected.done

\* The reactions a member has on the message.
ReactionsOf(member) == {r[1] : r \in {x \in live : x[2] = member}}

\* C24 as the specification has it: after u1 reacted with thumbsup and then
\* with thumbsdown in the single_choice poll and every event that came of
\* it was handled, the remove-event of the removal included, u1's vote is
\* on thumbsdown only: thumbsup has 0 votes, thumbsdown has 1, total_votes
\* is 1.
C24_SecondVoteReplacesFirst ==
    BothVotesHandled
    => /\ Counts(options) = <<0, 1>>
       /\ total_votes = 1
       /\ ReactionsOf("u1") = {ThumbsDown}

\* C24 as the code has it: after u1 reacted with thumbsup and then with
\* thumbsdown in the single_choice poll, when add_vote_event has turned a
\* vote down and the remove-event of its removal has been handled, u1's
\* vote is on the option whose add-event was handled first, which is
\* thumbsup when the handlers ran in the order of delivery: that option has
\* 1 vote, the other 0, total_votes is 1, u1 is in members_voted once, and
\* u1's reaction to the other option is gone.
C24_FirstVoteStays ==
    BothVotesHandled
    => /\ total_votes = 1
       /\ members_voted = <<"u1">>
       /\ IF rejected.ev = 2
          THEN Counts(options) = <<1, 0>> /\ ReactionsOf("u1") = {ThumbsUp}
          ELSE Counts(options) = <<0, 1>> /\ ReactionsOf("u1") = {ThumbsDown}

\* C24, its case: the handlers ran in the order of delivery, the vote for
\* thumbsdown was turned down and its remove-event has been handled.
C24_SecondVoteTurnedDown ==
    /\ BothVotesHandled /\ rejected.ev = 2
    /\ rejected.member = "u1"
    /\ Counts(options) = <<1, 0>>

\* C25: in every reachable state of a poll every option's reaction_count
\* and total_votes are at least 0, whatever reactions the members add and
\* remove.
C25_CountsNeverNegative ==
    /\ total_votes >= 0
    /\ \A i \in 1..Len(options) : options[i].reaction_count >= 0

\* generate_results returns in this step (a call that gives what the last
\* one gave leaves the state as it is).
ResultsGenerated == results' # results

\* C26: generate_results never divides by zero: whenever no option has a
\* vote (the highest count is 0, or there is no option), and be total_votes
\* positive, what it gives is the text of a poll without votes, and no bar.
C26_NoVotesWhenNobodyWins ==
    [][(ResultsGenerated /\ \A i \in 1..Len(options) : options[i].reaction_count = 0)
          => results' = [raised |-> None, string |-> NO_VOTES_STRING, bars |-> <<>>]]_vars

\* The highest reaction_count of the options.
HighestCount(opts) ==
    CHOOSE c \in Range(Counts(opts)) : \A d \in Range(Counts(opts)) : d <= c

\* The places in the results of the bars flagged as winners.
WinnerBars(bars) == {i \in 1..Len(bars) : bars[i].is_winner}

\* The place of the option of an id in the options.
PlaceOf(opts, id) == CHOOSE i \in 1..Len(opts) : OptionId(opts[i]) = id

\* C27: for every poll with at least one option, the count
\* _get_winning_option returns is the highest reaction_count of the
\* options, and the ids it returns are those of exactly the options with
\* that count, each once: every option that ties is a winner.
C27_WinnersAreTheHighest ==
    options # <<>>
    => LET winner == _get_winning_option(options)
       IN /\ winner.votes = HighestCount(options)
          /\ Range(winner.ids) =
                 {OptionId(options[i]) : i \in {j \in 1..Len(options) :
                     options[j].reaction_count = HighestCount(options)}}
          /\ \A i, j \in 1..Len(winner.ids) : i # j => winner.ids[i] # winner.ids[j]

\* C27, its case: the results were generated for three options of which
\* two tie with the highest count, MaxVotes, and the bars of these two are
\* the ones flagged as winners.
C27_TwoWinners ==
    /\ Len(options) = 3 /\ results.string = "bars" /\ Len(results.bars) = 3
    /\ Len(_get_winning_option(options).ids) = 2
    /\ _get_winning_option(options).votes = MaxVotes
    /\ {results.bars[i].id : i \in WinnerBars(results.bars)}
           = Range(_get_winning_option(options).ids)
    /\ \E i \in 1..3 : options[i].reaction_count = MaxVotes - 2

\* C28: the results generate_results returns as a chart list every option
\* exactly once: first the winners, in the order of the options, then the
\* other options, each with at most the count of the one before.
C28_WinnersFirstThenByCount ==
    [][(ResultsGenerated /\ results'.string = "bars")
          => LET bars == results'.bars
                 winners == Len(_get_winning_option(options).ids)
             IN /\ Len(bars) = Len(options)
                /\ {bars[i].id : i \in 1..Len(bars)} = Range(OptionKeys(options))
                /\ WinnerBars(bars) = 1..winners
                /\ \A i \in 1..winners :
                       /\ bars[i].reaction_count = HighestCount(options)
                       /\ \A j \in 1..winners :
                              i < j => PlaceOf(options, bars[i].id) < PlaceOf(options, bars[j].id)
                /\ \A i \in (winners + 1)..Len(bars) :
                       /\ bars[i].reaction_count < HighestCount(options)
                       /\ i < Len(bars)
                              => bars[i].reaction_count >= bars[i + 1].reaction_count]_vars

\* C28, its case: a chart of three bars in which the winner is the second
\* option, and the third option comes before the first, having more votes.
C28_LoserWithMoreVotesFirst ==
    /\ Len(options) = 3 /\ results.string = "bars" /\ Len(results.bars) = 3
    /\ results.bars[1].id = OptionId(options[2])
    /\ results.bars[2].id = OptionId(options[3])
    /\ results.bars[3].id = OptionId(options[1])
    /\ results.bars[2].reaction_count > results.bars[3].reaction_count

\* C29: in a chart generate_results returns, whose winning count is above
\* 0, the bar of every option is floor(reaction_count * 10 / winning count)
\* long, which is between 0 and 10, and 10 for a winner.
C29_BarLength ==
    [][(/\ ResultsGenerated /\ results'.string = "bars"
        /\ options # <<>> /\ HighestCount(options) > 0)
          => \A i \in 1..Len(results'.bars) :
                LET bar == results'.bars[i]
                    count == OptionOf(options, bar.id).reaction_count
                IN /\ bar.bar_length = (count * 10) \div HighestCount(options)
                   /\ bar.bar_length \in 0..10
                   /\ bar.is_winner => bar.bar_length = 10]_vars

\* C29, its case: a chart in which an option with 3 votes, the winner
\* having 5, has a bar of length 6.
C29_ThreeOfFive ==
    /\ results.string = "bars" /\ options # <<>> /\ HighestCount(options) = 5
    /\ \E i \in 1..Len(results.bars) :
          /\ results.bars[i].reaction_count = 3
          /\ results.bars[i].bar_length = 6
          /\ ~results.bars[i].is_winner
          /\ OptionOf(options, results.bars[i].id).reaction_count = 3

\* C30: for a menu of no, one or more options, from_dict(to_dict(menu))
\* raises nothing and gives a menu of the same title, description and
\* enabled flag, with the same options in the same order, descriptions and
\* counts included.
C30_RoundTrip == from_dict(to_dict(ThisMenu)) = [raised |-> None, menu |-> ThisMenu]

\* C31: MenuOption.from_dict on a stored option whose reaction_count is
\* missing or is no integer raises nothing and gives an option of count 0,
\* and MenuBase.from_dict on a stored menu raises nothing and gives a menu
\* whose options are those of the stored array, in its order.
C31_LoadDefaultsCount ==
    /\ lastCall.op = "MenuOption.from_dict"
       => /\ lastCall.returned.raised = None
          /\ "int" \notin DOMAIN lastCall.given.reaction_count
             => lastCall.returned.option.reaction_count = 0
    /\ lastCall.op = "MenuBase.from_dict"
       => /\ lastCall.returned.raised = None
          /\ Len(options) = Len(lastCall.given)
          /\ \A i \in 1..Len(options) :
                 options[i].emoji = ReactionEmoji(lastCall.given[i].emoji).partial

\* The option of this emoji has a value that is read as a role.
RoleReference(emoji) == RoleIdOf(options, emoji) # 0

\* The callback of this event has run to its end or has raised.
RoleEventOver(e) == e.pc # "fetch_member"

\* What holds of give_role_event and of every callback without a role.
RoleCallsOfGive(e) ==
    /\ e.callback = "give_role_event" /\ RoleReference(e.emoji)
       => e.calls.add_roles = 1 /\ e.calls.remove_reaction = 0
    /\ e.callback = "give_role_event" /\ ~RoleReference(e.emoji)
       => e.calls.remove_reaction = 1 /\ e.calls.add_roles = 0
    /\ e.callback = "remove_role_event" /\ ~RoleReference(e.emoji)
       => e.calls.remove_roles = 0

Toggled(op) == lastCall' # lastCall /\ lastCall'.op = op

\* C33: enable called on a menu that is enabled, and disable called on one
\* that is disabled, edit no message, add and clear no reaction, register
\* and remove no listener, leave the menu as it is, and on a reaction menu
\* return False.
C33_NothingToToggle ==
    [][(\/ Toggled("enable") /\ enabled
        \/ Toggled("disable") /\ ~enabled)
          => /\ UNCHANGED <<kind, menuVars, platformVars, calls>>
             /\ kind = "Reaction" => lastCall'.returned = "False"]_vars

\* enable was called on a reaction menu that is sent and enabled, has its
\* two listeners, and has no call in progress.
C33_EnabledAgain ==
    /\ lastCall.op = "enable" /\ lastCall.returned = "False"
    /\ kind = "Reaction" /\ enabled /\ message # None
    /\ listeners = [add |-> 1, remove |-> 1]
    /\ NoCallInProgress

\* C34: total_votes is the sum of the counts of the options the menu has,
\* whatever reactions were added and removed and whatever options were
\* added and removed.
C34_TotalIsSumOfCounts == total_votes = SumOfCounts(options)

\* C35: in a poll that only had reactions added and removed, members_voted
\* has as many entries, each member counted as often as it is listed, as
\* total_votes says.
C35_EntriesAreTotalVotes == total_votes = Len(members_voted)

\* A member is listed twice, for a second vote on a single-choice poll that
\* was tallied and is to be undone.
C35_ListedTwice ==
    /\ single_choice
    /\ total_votes = 2
    /\ \E m \in Users : Entries(members_voted, m) = 2
    /\ \E h \in handlers : h.pc = "remove_reaction"

\* The callback leaves every count, total_votes and members_voted alone.
TallyUnchanged == UNCHANGED <<options, total_votes, members_voted>>

SendMenuReturns(c) ==
    /\ c.op = "send_menu"
    /\ \A d \in calls' : d.id # c.id
    /\ \/ SendMenuSent(c)
       \/ MessageFetched(c)
       \/ \E ok \in BOOLEAN : AddReactionDone(c, ok)

\* C37: when send_menu returns on a reaction menu, the menu has its message
\* and message id, enabled is auto_enable, and both handlers are registered
\* if auto_enable is set and neither is if it is not; and while a send_menu
\* of a menu without auto_enable is in progress, no handler is registered
\* and the bot has no reaction on the message.
C37_SentAsAutoEnable ==
    [][\A c \in calls :
          /\ (kind = "Reaction" /\ SendMenuReturns(c))
             => /\ message' = MenuMessage /\ message_id' = MenuMessage
                /\ enabled' = auto_enable
                /\ IF auto_enable THEN listeners' = [add |-> 1, remove |-> 1]
                   ELSE listeners' = [add |-> 0, remove |-> 0]
          /\ (kind = "Reaction" /\ c.op = "send_menu" /\ ~auto_enable)
             => /\ listeners = [add |-> 0, remove |-> 0]
                /\ \A r \in live : r[2] # Self]_vars

====
